---- MODULE Spec2Model ----
(***************************************************************************)
(* A model of GeometryMerger (src/src/processors/converters/               *)
(* geometry_merger.py) and of the call protocol of merge_planes.           *)
(*                                                                         *)
(* Numbers.  A coordinate is an integer number of grid steps; Grid steps   *)
(* make one unit of length, so a step is 0.02.  A tolerance is an integer *)
(* number of thousandths (point_tol 0.001 is 1, the relaxed 0.05 is 50).   *)
(* Every comparison the code makes between floating-point values is made   *)
(* here between the exact rational values: a unit vector v/|v| is held as  *)
(* v together with |v|^2 and each comparison is squared or cross-          *)
(* multiplied, so no square root is taken except that of the squared       *)
(* length of a reduced normal, which is exact for the faces explored.      *)
(***************************************************************************)
EXTENDS Integers, Sequences, FiniteSets, TLC

\* Grid steps per unit of length (a step is 20 thousandths).
Grid == 5 * 10
\* Thousandths per unit: the scale tolerances and rounded keys are held in.
Milli == 10 * 10 * 10

-----------------------------------------------------------------------------
(* Exact arithmetic on integers that stay below 2^31.                      *)

Abs(x) == IF x < 0 THEN -x ELSE x
Min(a, b) == IF a < b THEN a ELSE b
Max(a, b) == IF a > b THEN a ELSE b

RECURSIVE Gcd(_, _)
Gcd(a, b) == IF b = 0 THEN a ELSE Gcd(b, a % b)

\* p/q < r/s for p, r >= 0 and q, s > 0, by continued fractions: no product
\* is formed, so operands up to 2^31 are compared exactly.
RECURSIVE FracLess(_, _, _, _)
FracLess(p, q, r, s) ==
    LET ip == p \div q
        ir == r \div s
        fp == p % q
        fr == r % s
    IN  IF ip # ir THEN ip < ir
        ELSE IF fr = 0 THEN FALSE
        ELSE IF fp = 0 THEN TRUE
        ELSE FracLess(s, fr, q, fp)

\* x * den < num and x * den > num, for den > 0, without forming x * den.
ScaledLt(x, num, den) == x <= (num - 1) \div den
ScaledGt(x, num, den) == x > num \div den

\* The exact square root of a perfect square.
Sqrt(n) == CHOOSE r \in 0..n : r * r = n

\* round(num/den) to the nearest integer, ties to even: Python's round().
RoundHalfEven(num, den) ==
    LET fl == num \div den
        twice == 2 * (num - fl * den)
    IN  IF twice < den THEN fl
        ELSE IF twice > den THEN fl + 1
        ELSE IF fl % 2 = 0 THEN fl ELSE fl + 1

-----------------------------------------------------------------------------
(* Vectors: <<x, y, z>> in grid steps.                                     *)

Sub(p, q) == <<p[1] - q[1], p[2] - q[2], p[3] - q[3]>>
Dot(a, b) == a[1] * b[1] + a[2] * b[2] + a[3] * b[3]
Cross(a, b) == <<a[2] * b[3] - a[3] * b[2],
                 a[3] * b[1] - a[1] * b[3],
                 a[1] * b[2] - a[2] * b[1]>>
Len2(a) == Dot(a, a)
Dist2(p, q) == Len2(Sub(p, q))

\* tol ** 2 for a tolerance of t thousandths, as a fraction of a squared step.
TolSqNum(t) == t * t * Grid * Grid
TolSqDen == Milli * Milli

\* dist_sq < tol ** 2 (dist_sq in squared steps).
WithinTolSq(d2, t) == ScaledLt(d2, TolSqNum(t), TolSqDen)

\* x < 1e-9 for a squared length x in squared steps (lines 305, 361, 277: a
\* length below 1e-9 has a squared length below 1e-18, and both are 0 here).
EpsDen == 1000000000
BelowEps(x) == ScaledLt(x, Grid * Grid, EpsDen)

Range(s) == {s[i] : i \in DOMAIN s}
Next1(i, n) == (i % n) + 1
Prev1(i, n) == ((i + n - 2) % n) + 1

RECURSIVE SeqSum(_)
SeqSum(s) == IF s = <<>> THEN 0 ELSE Head(s) + SeqSum(Tail(s))

RECURSIVE Flatten(_)
Flatten(ss) == IF ss = <<>> THEN <<>> ELSE Head(ss) \o Flatten(Tail(ss))

\* The elements of s that satisfy the flags keep[i], in order.
RECURSIVE KeepWhere(_, _)
KeepWhere(s, keep) ==
    IF s = <<>> THEN <<>>
    ELSE (IF Head(keep) THEN <<Head(s)>> ELSE <<>>) \o KeepWhere(Tail(s), Tail(keep))

Reverse(s) == [i \in 1..Len(s) |-> s[Len(s) + 1 - i]]

-----------------------------------------------------------------------------
(* Records.  A face value is a sequence of entries [name, num, v] in       *)
(* insertion order: the key is name followed by the digits num, v is the   *)
(* point.  A mapping is a sequence of [key, val] in insertion order with   *)
(* pairwise distinct keys, as a Python dict.                               *)

RECURSIVE Digits(_)
Digits(n) == IF n < 10 THEN <<n>> ELSE Append(Digits(n \div 10), n % 10)

\* f"{n:03d}": the decimal digits of n, padded with zeros to at least 3.
Format03d(n) ==
    LET ds == Digits(n)
    IN  IF Len(ds) >= 3 THEN ds ELSE [i \in 1..(3 - Len(ds)) |-> 0] \o ds

\* String order on digit strings: the first difference decides, a proper
\* prefix comes first.
RECURSIVE LexLess(_, _)
LexLess(a, b) ==
    IF b = <<>> THEN FALSE
    ELSE IF a = <<>> THEN TRUE
    ELSE IF Head(a) # Head(b) THEN Head(a) < Head(b)
    ELSE LexLess(Tail(a), Tail(b))

\* "vertex" in k.lower()
IsVertexKey(e) == e.name \in {"Vertex_", "vertex_", "VERTEX_"}

RECURSIVE InsertByKey(_, _)
InsertByKey(sorted, e) ==
    IF sorted = <<>> THEN <<e>>
    ELSE IF LexLess(e.num, Head(sorted).num) THEN <<e>> \o sorted
    ELSE <<Head(sorted)>> \o InsertByKey(Tail(sorted), e)

RECURSIVE SortByKey(_)
SortByKey(es) ==
    IF es = <<>> THEN <<>> ELSE InsertByKey(SortByKey(Tail(es)), Head(es))

\* _extract_vertices: the values of the vertex keys, in sorted key order.
ExtractVertices(data) ==
    LET sorted == SortByKey(SelectSeq(data, IsVertexKey))
    IN  [i \in 1..Len(sorted) |-> sorted[i].v]

\* _format_to_json: Vertex_001, Vertex_002, ... in loop order.
FormatToJson(verts) ==
    [i \in 1..Len(verts) |-> [name |-> "Vertex_", num |-> Format03d(i), v |-> verts[i]]]

\* _pt_to_tuple: each coordinate rounded to 3 decimals, held in thousandths.
PtToTuple(pt) ==
    <<RoundHalfEven(pt[1] * Milli, Grid),
      RoundHalfEven(pt[2] * Milli, Grid),
      RoundHalfEven(pt[3] * Milli, Grid)>>

\* {'x': p[0], 'y': p[1], 'z': p[2]}: a rounded tuple read back as a point.
TupleToPt(t) ==
    <<(t[1] * Grid) \div Milli, (t[2] * Grid) \div Milli, (t[3] * Grid) \div Milli>>

\* _calculate_normal: Newell's method.  The unit normal s/|s| is held as the
\* reduced vector v and its length len; the fallback is (0,1,0).
NewellSum(verts, a, b) ==
    SeqSum([i \in 1..Len(verts) |->
        (verts[Next1(i, Len(verts))][a] - verts[i][a])
            * (verts[i][b] + verts[Next1(i, Len(verts))][b])])

\* The vector v with its length.
WithLength(v) == [v |-> v, len |-> Sqrt(Len2(v))]

\* The normal without the fallback: the zero vector for a zero sum.
NormalizedNoFallback(sx, sy, sz, g) ==
    IF BelowEps(g) THEN [v |-> <<0, 0, 0>>, len |-> 1]
    ELSE WithLength(<<sx \div g, sy \div g, sz \div g>>)

\* Lines 424-426 for the sums sx, sy, sz, whose greatest common divisor is
\* g (zero exactly when the length l is zero).
Normalized(sx, sy, sz, g) ==
    IF BelowEps(g) THEN [v |-> <<0, 1, 0>>, len |-> 1]
    ELSE WithLength(<<sx \div g, sy \div g, sz \div g>>)

NormalOfSums(sx, sy, sz) == Normalized(sx, sy, sz, Gcd(Gcd(Abs(sx), Abs(sy)), Abs(sz)))

\* _calculate_normal
CalculateNormal(verts) ==
    NormalOfSums(NewellSum(verts, 2, 3), NewellSum(verts, 3, 1), NewellSum(verts, 1, 2))

\* d = -(normal . verts[0]), a fraction of a step.
PlaneOffset(normal, verts) == [num |-> -Dot(normal.v, verts[1]), den |-> normal.len]

\* _extract_edges: vec is the direction p2 - p1 and len2 its squared length;
\* the unit vector of the code is vec / sqrt(len2), or (0,0,0) when the
\* length is below 1e-9.
ExtractEdges(verts) ==
    [i \in 1..Len(verts) |->
        LET p1 == verts[i]
            p2 == verts[Next1(i, Len(verts))]
            vec == Sub(p2, p1)
        IN  [p1 |-> p1, p2 |-> p2,
             vec |-> IF BelowEps(Len2(vec)) THEN <<0, 0, 0>> ELSE vec,
             len2 |-> Len2(vec)]]

\* The face record of _execute_single_pass (lines 133-142).
FaceWith(key, verts, normal) ==
    [original_key |-> key, verts |-> verts, normal |-> normal,
     d |-> PlaneOffset(normal, verts), edges |-> ExtractEdges(verts)]

MakeFace(key, verts) == FaceWith(key, verts, CalculateNormal(verts))

-----------------------------------------------------------------------------
(* Plane grouping and adjacency clustering.  nt, dt, pt are norm_tol,      *)
(* dist_tol and point_tol in thousandths.                                  *)

\* The elements of s at the indices idx, in order.
Pick(s, idx) == KeepWhere(s, [i \in 1..Len(s) |-> i \in idx])

\* The offsets d are not compared.
SamePlaneNormalOnly(fi, fj, nt, dt) ==
    Dot(fi.normal.v, fj.normal.v) * Milli > (Milli - nt) * fi.normal.len * fj.normal.len

\* Line 438: dot > 1 - norm_tol and abs(d_i - d_j) < dist_tol.
SamePlane(fi, fj, nt, dt) ==
    /\ Dot(fi.normal.v, fj.normal.v) * Milli
           > (Milli - nt) * fi.normal.len * fj.normal.len
    /\ Abs(fi.d.num * fj.d.den - fj.d.num * fi.d.den) * Milli
           < dt * Grid * fi.d.den * fj.d.den

\* _group_by_plane: the groups seeded at i, i+1, ... given the visited set.
RECURSIVE GroupsFrom(_, _, _, _, _)

\* The groups when only the seed is marked visited.
GroupsFromSeedOnly(faces, i, vis, nt, dt) ==
    IF i > Len(faces) THEN <<>>
    ELSE LET grp == {i} \cup {j \in (i + 1)..Len(faces) :
                                 SamePlane(faces[i], faces[j], nt, dt)}
         IN  <<Pick(faces, grp)>> \o GroupsFrom(faces, i + 1, {}, nt, dt)

GroupsFrom(faces, i, vis, nt, dt) ==
    IF i > Len(faces) THEN <<>>
    ELSE IF i \in vis THEN GroupsFrom(faces, i + 1, vis, nt, dt)
    ELSE LET grp == {i} \cup {j \in (i + 1)..Len(faces) :
                                 j \notin vis /\ SamePlane(faces[i], faces[j], nt, dt)}
         IN  <<Pick(faces, grp)>> \o GroupsFrom(faces, i + 1, vis \cup grp, nt, dt)

GroupByPlane(faces, nt, dt) == GroupsFrom(faces, 1, {}, nt, dt)

\* Line 388-389: abs(dot of the unit vectors) < 1 - norm_tol, squared.
NotParallel(ea, eb, nt) ==
    IF ea.vec = <<0, 0, 0>> \/ eb.vec = <<0, 0, 0>> THEN 0 < Milli - nt
    ELSE FracLess(Dot(ea.vec, eb.vec) * Dot(ea.vec, eb.vec), ea.len2 * eb.len2,
                  (Milli - nt) * (Milli - nt), Milli * Milli)

\* _is_collinear: the squared distance of eb.p1 from the line of ea, taken
\* with ea's unit vector, is below point_tol ** 2.
IsCollinear(ea, eb, pt) ==
    LET c == Cross(Sub(eb.p1, ea.p1), ea.vec)
    IN  IF ea.vec = <<0, 0, 0>> THEN 0 < pt * pt
        ELSE FracLess(Len2(c), ea.len2, TolSqNum(pt), TolSqDen)

\* Edges that meet in a point count as overlapping.
IsOverlappingAtPoint(ea, eb, pt) ==
    LET b1 == Dot(Sub(eb.p1, ea.p1), ea.vec)
        b2 == Dot(Sub(eb.p2, ea.p1), ea.vec)
        s  == Max(0, Min(b1, b2))
        e  == Min(ea.len2, Max(b1, b2))
    IN  e - s >= 0

\* _is_overlapping: the projections b1, b2 on ea's unit vector overlap
\* [0, length] by more than point_tol.  With every term multiplied by
\* length: (e - s) > point_tol * length.
IsOverlapping(ea, eb, pt) ==
    LET b1 == Dot(Sub(eb.p1, ea.p1), ea.vec)
        b2 == Dot(Sub(eb.p2, ea.p1), ea.vec)
        s  == Max(0, Min(b1, b2))
        e  == Min(ea.len2, Max(b1, b2))
    IN  /\ e - s > 0
        /\ ea.len2 > 0
        /\ FracLess(TolSqNum(pt), TolSqDen, (e - s) * (e - s), ea.len2)

\* _are_faces_touching
AreFacesTouching(fa, fb, pt, nt) ==
    \E i \in DOMAIN fa.edges : \E j \in DOMAIN fb.edges :
        /\ ~NotParallel(fa.edges[i], fb.edges[j], nt)
        /\ IsCollinear(fa.edges[i], fb.edges[j], pt)
        /\ IsOverlapping(fa.edges[i], fb.edges[j], pt)

\* find: the root of i (path compression changes no root).
RECURSIVE Find(_, _)
Find(parent, i) == IF parent[i] = i THEN i ELSE Find(parent, parent[i])

\* union that links the faces themselves, not their roots.
UnionUnrooted(parent, i, j) == [parent EXCEPT ![j] = i]

\* union: parent[r2] = r1 when the roots differ.
Union(parent, i, j) ==
    LET r1 == Find(parent, i)
        r2 == Find(parent, j)
    IN  IF r1 # r2 THEN [parent EXCEPT ![r2] = r1] ELSE parent

\* Lines 375-377: the pairs i < j in the order of the two loops.
RECURSIVE UnionPairs(_, _, _, _, _, _)
UnionPairs(group, parent, i, j, pt, nt) ==
    IF i > Len(group) THEN parent
    ELSE IF j > Len(group) THEN UnionPairs(group, parent, i + 1, i + 2, pt, nt)
    ELSE UnionPairs(group,
                    IF AreFacesTouching(group[i], group[j], pt, nt)
                        THEN Union(parent, i, j) ELSE parent,
                    i, j + 1, pt, nt)

\* Lines 378-383: the roots in the order they first occur.
RECURSIVE RootsInOrder(_, _, _)
RootsInOrder(parent, i, seen) ==
    IF i > Len(parent) THEN <<>>
    ELSE LET r == Find(parent, i)
         IN  IF r \in seen THEN RootsInOrder(parent, i + 1, seen)
             ELSE <<r>> \o RootsInOrder(parent, i + 1, seen \cup {r})

\* _cluster_by_adjacency
ClusterByAdjacency(group, pt, nt) ==
    LET parent == UnionPairs(group, [i \in 1..Len(group) |-> i], 1, 2, pt, nt)
        roots == RootsInOrder(parent, 1, {})
    IN  [k \in 1..Len(roots) |->
            Pick(group, {i \in 1..Len(group) : Find(parent, i) = roots[k]})]

-----------------------------------------------------------------------------
(* Boundary reconstruction.  Rounded points (tuples) are in thousandths.   *)

\* _is_point_on_segment, for the candidate cp and the edge p1 -> p1 + vec of
\* squared length len_sq.  Line 326 compares the dot product, a squared
\* length, with point_tol itself.
IsPointOnSegment(cp, p1, vec, len_sq, pt) ==
    LET v_pt == Sub(cp, p1)
        dist_sq == Len2(Cross(v_pt, vec))
        dot == Dot(v_pt, vec)
    IN  /\ ~FracLess(TolSqNum(pt), TolSqDen, dist_sq, len_sq)
        /\ ~(dot * Milli < pt * Grid * Grid)
        /\ ~((dot - len_sq) * Milli > -(pt * Grid * Grid))

\* Lines 312: the candidates in increasing squared distance from p1.  The
\* code sorts a list taken from a set; candidates at equal distance are put
\* here in the order of their coordinates.
TupleLess(a, b) ==
    \/ a[1] < b[1]
    \/ a[1] = b[1] /\ a[2] < b[2]
    \/ a[1] = b[1] /\ a[2] = b[2] /\ a[3] < b[3]

RECURSIVE SortByDistance(_, _)
SortByDistance(cands, p1) ==
    IF cands = {} THEN <<>>
    ELSE LET Before(a, b) ==
                 \/ Dist2(TupleToPt(a), p1) < Dist2(TupleToPt(b), p1)
                 \/ Dist2(TupleToPt(a), p1) = Dist2(TupleToPt(b), p1) /\ TupleLess(a, b)
             first == CHOOSE a \in cands : \A b \in cands \ {a} : Before(a, b)
         IN  <<first>> \o SortByDistance(cands \ {first}, p1)

\* Lines 296-314 for the edge leaving vertex i: the vertex, then the cluster
\* points spliced into the edge.
SplicedEdge(verts, i, all_points, pt) ==
    LET p1 == verts[i]
        p2 == verts[Next1(i, Len(verts))]
        vec == Sub(p2, p1)
        seg_len_sq == Len2(vec)
        on == {c \in all_points :
                  /\ c # PtToTuple(p1)
                  /\ c # PtToTuple(p2)
                  /\ IsPointOnSegment(TupleToPt(c), p1, vec, seg_len_sq, pt)}
        sorted == SortByDistance(on, p1)
    IN  IF BelowEps(seg_len_sq) THEN <<p1>>
        ELSE <<p1>> \o [k \in 1..Len(sorted) |-> TupleToPt(sorted[k])]

\* _resolve_t_junctions: the refined vertex loop of every face of the cluster.
ResolveTJunctions(cluster, pt) ==
    LET all_points == UNION {{PtToTuple(cluster[f].verts[i]) : i \in DOMAIN cluster[f].verts}
                                : f \in DOMAIN cluster}
    IN  [f \in DOMAIN cluster |->
            Flatten([i \in DOMAIN cluster[f].verts |->
                        SplicedEdge(cluster[f].verts, i, all_points, pt)])]

\* tuple(sorted((p1, p2))): the undirected key of an edge.
EdgeKey(p1, p2) == IF TupleLess(p2, p1) THEN <<p2, p1>> ELSE <<p1, p2>>

\* The directed edges (p1, p2) of the refined faces, face by face.
DirectedEdges(refined) ==
    Flatten([f \in DOMAIN refined |->
        [i \in DOMAIN refined[f] |->
            <<PtToTuple(refined[f][i]), PtToTuple(refined[f][Next1(i, Len(refined[f]))])>>]])

\* The edges counted by direction: the key is (p1, p2) as it stands.
BoundaryEdgesDirected(refined) ==
    LET es == DirectedEdges(refined)
        Count(e) == Cardinality({i \in DOMAIN es : es[i] = e})
    IN  SelectSeq(es, LAMBDA e : Count(e) = 1)

\* Lines 177-197: the edges whose undirected key occurs exactly once.
BoundaryEdges(refined) ==
    LET es == DirectedEdges(refined)
        Count(k) == Cardinality({i \in DOMAIN es : EdgeKey(es[i][1], es[i][2]) = k})
    IN  SelectSeq(es, LAMBDA e : Count(EdgeKey(e[1], e[2])) = 1)

\* A dict of successors as a sequence of <<start, end>> in insertion order.
AdjHas(adj, k) == \E i \in DOMAIN adj : adj[i][1] = k
AdjGet(adj, k) == adj[CHOOSE i \in DOMAIN adj : adj[i][1] = k][2]
AdjDel(adj, ks) == SelectSeq(adj, LAMBDA e : e[1] \notin ks)
AdjSet(adj, k, v) ==
    IF AdjHas(adj, k) THEN [i \in DOMAIN adj |-> IF adj[i][1] = k THEN <<k, v>> ELSE adj[i]]
    ELSE Append(adj, <<k, v>>)

\* Line 331: adj[start] = end for every edge, a later edge replacing an
\* earlier one that leaves the same point.
RECURSIVE BuildAdj(_, _)
BuildAdj(adj, edges) ==
    IF edges = <<>> THEN adj
    ELSE BuildAdj(AdjSet(adj, Head(edges)[1], Head(edges)[2]), Tail(edges))

\* Lines 339-351: one walk from start_pt.
RECURSIVE Walk(_, _, _, _, _, _)
Walk(adj, start_pt, curr_pt, loop, safe_count, max_iter) ==
    IF ~(safe_count < max_iter) THEN [adj |-> adj, closed |-> FALSE, loop |-> loop]
    ELSE LET loop1 == Append(loop, curr_pt)
         IN  IF ~AdjHas(adj, curr_pt)
                 THEN [adj |-> AdjDel(adj, Range(loop1)), closed |-> FALSE, loop |-> loop1]
             ELSE LET next_pt == AdjGet(adj, curr_pt)
                      adj1 == AdjDel(adj, {curr_pt})
                  IN  IF next_pt = start_pt
                          THEN [adj |-> adj1, closed |-> TRUE, loop |-> loop1]
                      ELSE Walk(adj1, start_pt, next_pt, loop1, safe_count + 1, max_iter)

\* Lines 333-352: walks until the dict is empty; closed walks are kept.
RECURSIVE ChainLoops(_)
ChainLoops(adj) ==
    IF adj = <<>> THEN <<>>
    ELSE LET w == Walk(adj, adj[1][1], adj[1][1], <<>>, 0, Len(adj) * 2)
         IN  (IF w.closed THEN <<w.loop>> ELSE <<>>) \o ChainLoops(w.adj)

\* Lines 333-352: every walk with the points it went through, closed or not.
RECURSIVE ChainWalks(_)
ChainWalks(adj) ==
    IF adj = <<>> THEN <<>>
    ELSE <<[closed |-> Walk(adj, adj[1][1], adj[1][1], <<>>, 0, Len(adj) * 2).closed,
            loop |-> Walk(adj, adj[1][1], adj[1][1], <<>>, 0, Len(adj) * 2).loop]>>
             \o ChainWalks(Walk(adj, adj[1][1], adj[1][1], <<>>, 0, Len(adj) * 2).adj)

\* _chain_edges_all
ChainEdgesAll(edges) == ChainLoops(BuildAdj(<<>>, edges))

-----------------------------------------------------------------------------
(* Polygon cleanup.                                                        *)

\* collinear_threshold = 0.9999, as CollinearNum / CollinearDen.
CollinearNum == 9999
CollinearDen == 10000
\* max_iterations of _clean_polygon_artifacts.
MaxIterations == 10

\* _remove_spikes: vertex i goes when its two neighbours coincide within tol.
RemoveSpikes(verts, tol) ==
    IF Len(verts) < 3 THEN verts
    ELSE LET n == Len(verts)
         IN  KeepWhere(verts, [i \in 1..n |->
                 ~WithinTolSq(Dist2(verts[Prev1(i, n)], verts[Next1(i, n)]), tol)])

\* Lines 250-261: from vertex i on; skip is skip_next.
RECURSIVE ShortEdgesFrom(_, _, _, _)
ShortEdgesFrom(verts, i, skip, tol) ==
    IF i > Len(verts) THEN <<>>
    ELSE IF skip THEN ShortEdgesFrom(verts, i + 1, FALSE, tol)
    ELSE <<verts[i]>> \o
         ShortEdgesFrom(verts, i + 1,
             /\ WithinTolSq(Dist2(verts[i], verts[Next1(i, Len(verts))]), tol)
             /\ i < Len(verts),
             tol)

\* _remove_short_edges
RemoveShortEdges(verts, tol) ==
    IF Len(verts) < 3 THEN verts ELSE ShortEdgesFrom(verts, 1, FALSE, tol)

\* Lines 273-283: whether vertex i is deleted.
IsCollinearVertex(verts, i) ==
    LET n == Len(verts)
        v1 == Sub(verts[i], verts[Prev1(i, n)])
        v2 == Sub(verts[Next1(i, n)], verts[i])
        dot == Dot(v1, v2)
    IN  IF BelowEps(Len2(v1)) \/ BelowEps(Len2(v2)) THEN TRUE
        ELSE /\ dot > 0
             /\ FracLess(CollinearNum * CollinearNum, CollinearDen * CollinearDen,
                         dot * dot, Len2(v1) * Len2(v2))

\* No vertex is dropped.
KeepCollinear(verts) == verts

\* _remove_collinear
RemoveCollinear(verts) ==
    IF Len(verts) < 3 THEN verts
    ELSE KeepWhere(verts, [i \in 1..Len(verts) |-> ~IsCollinearVertex(verts, i)])

\* One iteration of the loop of _clean_polygon_artifacts (lines 226-228).
CleanOnce(verts, pt) == RemoveCollinear(RemoveShortEdges(RemoveSpikes(verts, pt), pt))

\* The loop of _clean_polygon_artifacts with left iterations to go;
\* CleanStep is the end of an iteration that turned verts into nxt.
RECURSIVE CleanLoop(_, _, _)
CleanStep(verts, nxt, pt, left) ==
    IF Len(nxt) = Len(verts) THEN nxt ELSE CleanLoop(nxt, pt, left - 1)

CleanLoop(verts, pt, left) ==
    IF left = 0 \/ Len(verts) < 3 THEN verts
    ELSE CleanStep(verts, CleanOnce(verts, pt), pt, left)

\* _clean_polygon_artifacts
CleanPolygonArtifacts(verts, pt) == CleanLoop(verts, pt, MaxIterations)

-----------------------------------------------------------------------------
(* Merging one cluster.  The result is [ok, polys]: ok is FALSE for the    *)
(* code's None.                                                            *)

NoPolygons == [ok |-> FALSE, polys |-> <<>>]

\* Lines 206-216 for one loop: the cleaned loop, reversed when its normal
\* opposes the normal of the cluster's first face.
Oriented(merged_verts, cluster) ==
    IF Len(merged_verts) < 3 THEN merged_verts
    ELSE IF Dot(CalculateNormal(merged_verts).v, cluster[1].normal.v) < 0
             THEN Reverse(merged_verts)
         ELSE merged_verts

OrientedLoop(loop_tuples, cluster, pt) ==
    Oriented(CleanPolygonArtifacts([i \in DOMAIN loop_tuples |-> TupleToPt(loop_tuples[i])], pt),
             cluster)

\* A loop of fewer than 2 vertices only.
TooShortBelow2(merged_verts) == Len(merged_verts) < 2

\* Line 209: if len(merged_verts) < 3: return None
TooShort(merged_verts) == Len(merged_verts) < 3

\* The loops that are too short are left out, the others kept.
PolygonsWithoutShort(polys) ==
    [ok |-> TRUE, polys |-> SelectSeq(polys, LAMBDA p : ~(Len(p) < 3))]

\* Lines 205-218: None as soon as a cleaned loop is too short.
PolygonsOrNone(polys) ==
    IF \E k \in DOMAIN polys : TooShort(polys[k]) THEN NoPolygons
    ELSE [ok |-> TRUE, polys |-> polys]

\* Lines 202-218, from all_loops on.
MergeLoops(all_loops, cluster, pt) ==
    IF all_loops = <<>> THEN NoPolygons
    ELSE PolygonsOrNone([k \in DOMAIN all_loops |-> OrientedLoop(all_loops[k], cluster, pt)])

\* Lines 200-218, from boundary_edges on.
MergeBoundary(boundary_edges, cluster, pt) ==
    IF boundary_edges = <<>> THEN NoPolygons
    ELSE MergeLoops(ChainEdgesAll(boundary_edges), cluster, pt)

\* _merge_cluster_to_polygons
MergeClusterToPolygons(cluster, pt) ==
    MergeBoundary(BoundaryEdges(ResolveTJunctions(cluster, pt)), cluster, pt)

-----------------------------------------------------------------------------
(* One pass.                                                               *)

\* d[k] = v on a dict held as a sequence of [key, val].
DictKeys(d) == {d[i].key : i \in DOMAIN d}
DictSet(d, k, v) ==
    IF k \in DictKeys(d)
        THEN [i \in DOMAIN d |-> IF d[i].key = k THEN [key |-> k, val |-> v] ELSE d[i]]
    ELSE Append(d, [key |-> k, val |-> v])

\* f"Plane_{idx_counter:03d}"
PlaneKey(idx_counter) == [pre |-> "Plane_", num |-> Format03d(idx_counter)]

\* Lines 127-142: the faces that have at least 3 vertices, in input order.
FacesOf(kept) == [i \in DOMAIN kept |-> MakeFace(kept[i].key, kept[i].verts)]

FaceList(plane_items) ==
    FacesOf(SelectSeq([i \in DOMAIN plane_items |->
                          [key |-> plane_items[i].key,
                           verts |-> ExtractVertices(plane_items[i].val)]],
                      LAMBDA f : ~(Len(f.verts) < 3)))

\* Lines 149-152: the clusters of all plane groups, in the order of the loops.
ClustersOf(plane_groups, pt, nt) ==
    Flatten([g \in DOMAIN plane_groups |-> ClusterByAdjacency(plane_groups[g], pt, nt)])

ClusterList(face_list, pt, nt, dt) == ClustersOf(GroupByPlane(face_list, nt, dt), pt, nt)

\* A cluster whose merge failed emits nothing.
EmittedNoFallback(cluster, merged_polygons) ==
    IF ~merged_polygons.ok \/ merged_polygons.polys = <<>>
        THEN [merged |-> FALSE, loops |-> <<>>]
    ELSE [merged |-> TRUE, loops |-> merged_polygons.polys]

\* Lines 156-166: if not merged_polygons, every face of the cluster with
\* its own vertices, else the merged polygons.
Emitted(cluster, merged_polygons) ==
    IF ~merged_polygons.ok \/ merged_polygons.polys = <<>>
        THEN [merged |-> FALSE, loops |-> [f \in DOMAIN cluster |-> cluster[f].verts]]
    ELSE [merged |-> TRUE, loops |-> merged_polygons.polys]

\* Lines 154-166 for one cluster: the vertex loops it emits, and whether
\* they are merged polygons.
ClusterOutput(cluster, pt) == Emitted(cluster, MergeClusterToPolygons(cluster, pt))

\* The loops stored without advancing the counter.
StoreLoopsNoAdvance(merged_results, loops, from) ==
    LET keyed == [k \in DOMAIN loops |-> [key |-> PlaneKey(from), val |-> FormatToJson(loops[k])]]
    IN  IF loops = <<>> THEN merged_results
        ELSE DictSet(merged_results, PlaneKey(from), keyed[Len(keyed)].val)

\* Lines 158-166: the emitted loops stored under Plane_<idx_counter>, the
\* counter starting at from.
RECURSIVE StoreLoops(_, _, _)
StoreLoops(merged_results, loops, from) ==
    IF loops = <<>> THEN merged_results
    ELSE StoreLoops(DictSet(merged_results, PlaneKey(from), FormatToJson(Head(loops))),
                    Tail(loops), from + 1)

\* What _execute_single_pass leaves.  Besides the returned mapping (out)
\* the record holds what the pass went through: the clusters as lists of
\* original keys, what each emitted, all_input_keys and
\* successfully_processed_keys.
PassRecord(plane_items, clusters, outs, emitted) ==
    [out |-> StoreLoops(<<>>, emitted, 1),
     emitted |-> Len(emitted),
     clusters |-> [c \in DOMAIN clusters |->
                      [keys |-> [f \in DOMAIN clusters[c] |-> clusters[c][f].original_key],
                       merged |-> outs[c].merged,
                       loops |-> outs[c].loops]],
     all_input_keys |-> DictKeys(plane_items),
     successfully_processed_keys |->
         UNION {{clusters[c][f].original_key : f \in DOMAIN clusters[c]}
                    : c \in DOMAIN clusters}]

\* Lines 153-171, given what each cluster emits.
PassOutputs(plane_items, clusters, outs) ==
    PassRecord(plane_items, clusters, outs, Flatten([c \in DOMAIN outs |-> outs[c].loops]))

\* Lines 146-171, given the clusters.
PassOver(plane_items, clusters, pt) ==
    PassOutputs(plane_items, clusters,
                [c \in DOMAIN clusters |-> ClusterOutput(clusters[c], pt)])

\* _execute_single_pass
ExecuteSinglePass(plane_items, pt, nt, dt) ==
    PassOver(plane_items, ClusterList(FaceList(plane_items), pt, nt, dt), pt)

-----------------------------------------------------------------------------
(* merge_by_convex_hull.  A numpy array is [dtype, v]: np.array of whole   *)
(* numbers is an integer array, a row of vh is a float array.  centered,   *)
(* the projections and the hull are held multiplied by the number of       *)
(* points, so that the centroid needs no fractions.                        *)

NpArray(dtype, v) == [dtype |-> dtype, v |-> v]

\* The dtype of the result of an operation on arrays of dtypes a and b.
ResultType(a, b) == IF a = "int" /\ b = "int" THEN "int" ELSE "float"

\* np.cross
NpCross(a, b) == NpArray(ResultType(a.dtype, b.dtype), Cross(a.v, b.v))

\* Lines 27-31: the vertices of all faces, in the order of the mapping.
AllVerts(plane_items) ==
    Flatten([i \in DOMAIN plane_items |-> ExtractVertices(plane_items[i].val)])

RECURSIVE VecSum(_)
VecSum(ps) ==
    IF ps = <<>> THEN <<0, 0, 0>>
    ELSE <<Head(ps)[1] + VecSum(Tail(ps))[1], Head(ps)[2] + VecSum(Tail(ps))[2],
           Head(ps)[3] + VecSum(Tail(ps))[3]>>

\* Lines 39-40: points - centroid, times len(points).
CenteredOn(points, total) ==
    [i \in DOMAIN points |->
        <<Len(points) * points[i][1] - total[1], Len(points) * points[i][2] - total[2],
          Len(points) * points[i][3] - total[3]>>]

Centered(points) == CenteredOn(points, VecSum(points))

\* The unit vectors along the axes.
Axes == {<<1, 0, 0>>, <<-1, 0, 0>>, <<0, 1, 0>>, <<0, -1, 0>>, <<0, 0, 1>>, <<0, 0, -1>>}

\* Line 43-44: what np.linalg.svd can give as vh[2, :] for points of a
\* coordinate plane: a unit vector along which centered does not vary (its
\* sign, and the choice among several such directions, are the library's).
SvdNormals(centered) ==
    {NpArray("float", n) : n \in {a \in Axes : \A i \in DOMAIN centered : Dot(a, centered[i]) = 0}}

\* Lines 42-47: the normal after the try block; raised says that
\* np.linalg.svd raised LinAlgError.
NormalAfterSvd(raised, vh2) == IF raised THEN NpArray("int", <<0, 0, 1>>) ELSE vh2

\* abs(c) < 0.9 for a component c of a vector along an axis.
Below09(c) == Abs(c) * 10 < 9

\* Lines 50-53
Arb(normal) ==
    IF Below09(normal.v[1]) THEN NpArray("int", <<1, 0, 0>>) ELSE NpArray("int", <<0, 1, 0>>)

\* Line 60: x_axis /= norm_x.  numpy divides in place only into a float
\* array: the float quotient is not cast back into an integer array
\* (UFuncTypeError).
DivideInPlace(x_axis, norm_x) ==
    IF x_axis.dtype = "int" THEN [raised |-> TRUE, x_axis |-> x_axis]
    ELSE [raised |-> FALSE,
          x_axis |-> NpArray("float", [k \in 1..3 |-> x_axis.v[k] \div norm_x])]

\* Lines 56-60, given the cross product and its length.
XAxisOf(normal, x_axis, norm_x) ==
    IF norm_x = 0     \* norm_x < 1e-6
        THEN [raised |-> FALSE,
              x_axis |-> IF Below09(normal.v[3]) THEN NpArray("int", <<0, 1, 0>>)
                         ELSE NpArray("int", <<1, 0, 0>>)]
    ELSE DivideInPlace(x_axis, norm_x)

XAxisFrom(normal, x_axis) == XAxisOf(normal, x_axis, Sqrt(Len2(x_axis.v)))

\* Lines 50-60
XAxis(normal) == XAxisFrom(normal, NpCross(normal, Arb(normal)))

\* Line 62
YAxis(normal, x_axis) == NpCross(normal, x_axis)

\* Lines 65-67: the coordinates of the centered points along the two axes.
Points2d(centered, x_axis, y_axis) ==
    [i \in DOMAIN centered |-> <<Dot(centered[i], x_axis.v), Dot(centered[i], y_axis.v)>>]

\* Twice the signed area of the triangle a, b, c: positive when c is to the
\* left of the line from a to b.
Cross2(a, b, c) == (b[1] - a[1]) * (c[2] - a[2]) - (b[2] - a[2]) * (c[1] - a[1])

Dist2d(a, b) == (b[1] - a[1]) * (b[1] - a[1]) + (b[2] - a[2]) * (b[2] - a[2])

\* Qhull finds no initial simplex: the points do not span the plane.
IsFlat(ps) == \A a, b, c \in ps : Cross2(a, b, c) = 0

\* The hull vertex after p that stops at the nearest point of the line.
HullNextNearest(ps, p) ==
    CHOOSE q \in ps \ {p} :
        \A r \in ps \ {p} : \/ Cross2(p, q, r) > 0
                            \/ Cross2(p, q, r) = 0 /\ ~(Dist2d(p, r) < Dist2d(p, q))

\* The hull vertex after p, counter-clockwise: no point is to the right of
\* the line from p to it, and none is further along that line.
HullNext(ps, p) ==
    CHOOSE q \in ps \ {p} :
        \A r \in ps : \/ Cross2(p, q, r) > 0
                      \/ Cross2(p, q, r) = 0 /\ ~(Dist2d(p, r) > Dist2d(p, q))

RECURSIVE HullWalk(_, _, _)
HullWalk(ps, first, loop) ==
    IF HullNext(ps, loop[Len(loop)]) = first THEN loop
    ELSE HullWalk(ps, first, Append(loop, HullNext(ps, loop[Len(loop)])))

\* The lowest of the leftmost points: a vertex of the hull.
LowestLeft(ps) ==
    CHOOSE p \in ps : \A q \in ps : p[1] < q[1] \/ (p[1] = q[1] /\ ~(p[2] > q[2]))

\* Lines 70-75: scipy.spatial.ConvexHull(points_2d) raises for points that
\* do not span the plane; its vertices are the corners of the hull in
\* counter-clockwise order.  hull_points_2d = points_2d[hull.vertices], from
\* the lowest of the leftmost corners.
ConvexHull(points_2d) ==
    IF IsFlat(Range(points_2d)) THEN [raised |-> TRUE, hull_points_2d |-> <<>>]
    ELSE [raised |-> FALSE,
          hull_points_2d |-> HullWalk(Range(points_2d), LowestLeft(Range(points_2d)),
                                      <<LowestLeft(Range(points_2d))>>)]

\* Lines 78-84: centroid + p2[0] * x_axis + p2[1] * y_axis, for the sum
\* total of the count points.
Lifted(hull_points_2d, total, count, x_axis, y_axis) ==
    [i \in DOMAIN hull_points_2d |->
        [k \in 1..3 |->
            (total[k] + hull_points_2d[i][1] * x_axis.v[k]
                      + hull_points_2d[i][2] * y_axis.v[k]) \div count]]

\* "Merged_BackSide"
MergedBackSide == [pre |-> "Merged_BackSide", num |-> <<>>]

\* Lines 87-90
HullResult(hull_points_3d) == <<[key |-> MergedBackSide, val |-> FormatToJson(hull_points_3d)]>>

-----------------------------------------------------------------------------
(* DataModifier: the collaborator that calls the core.  Its data hold no   *)
(* Longi keys here, so that every entry is a plane candidate (lines 81-82) *)
(* and the loop of lines 30-39 runs over nothing.                          *)

\* Lines 243-248 for one entry of a face: a vertex (x, y, z) becomes
\* (-y, z, x); any other entry is copied.
TransformEntry(e) ==
    IF IsVertexKey(e) THEN [e EXCEPT !.v = <<-e.v[2], e.v[3], e.v[1]>>] ELSE e

\* _transform_recursive on the value of a face.
TransformRecursive(value) == [i \in DOMAIN value |-> TransformEntry(value[i])]

\* _transform_and_aggregate: plane_candidates; an empty value is left out
\* (line 59).
RECURSIVE TransformAndAggregate(_)
TransformAndAggregate(data) ==
    IF data = <<>> THEN <<>>
    ELSE IF Head(data).val = <<>> THEN TransformAndAggregate(Tail(data))
    ELSE <<[key |-> Head(data).key, val |-> TransformRecursive(Head(data).val)]>>
             \o TransformAndAggregate(Tail(data))

\* int(match.group(1)) for a string of digits.
RECURSIVE ToInt(_)
ToInt(ds) == IF ds = <<>> THEN 0 ELSE ToInt(SubSeq(ds, 1, Len(ds) - 1)) * 10 + ds[Len(ds)]

\* Lines 219-237: the key under which _process_plane_item stores a value.
PlaneItemKey(old_key) ==
    IF old_key.num = <<>> THEN old_key
    ELSE IF old_key.pre \in {"Standard_Surface_", "standard_surface_"}
        THEN [pre |-> "Plane_Standard_", num |-> Format03d(ToInt(old_key.num))]
    ELSE IF old_key.pre \in {"Stiffener_Surface_", "stiffener_surface_"}
        THEN [pre |-> "Plane_Stiffener_", num |-> Format03d(ToInt(old_key.num))]
    ELSE IF old_key.pre \in {"Surface_", "surface_"}
        THEN [pre |-> "Plane_", num |-> Format03d(ToInt(old_key.num))]
    ELSE old_key

\* _process_plane_item
ProcessPlaneItem(old_key, value, output_dict) == DictSet(output_dict, PlaneItemKey(old_key), value)

\* Lines 48-49
RECURSIVE ProcessPlaneItems(_, _)
ProcessPlaneItems(plane_candidates, valid_data) ==
    IF plane_candidates = <<>> THEN valid_data
    ELSE ProcessPlaneItems(Tail(plane_candidates),
                           ProcessPlaneItem(Head(plane_candidates).key,
                                            Head(plane_candidates).val, valid_data))

\* dict.update
RECURSIVE DictUpdate(_, _)
DictUpdate(d, other) ==
    IF other = <<>> THEN d
    ELSE DictUpdate(DictSet(d, Head(other).key, Head(other).val), Tail(other))

-----------------------------------------------------------------------------
(* The inputs explored.  A scene is [kind, items]: items is the mapping    *)
(* given to merge_planes and kind names the family it was built from.      *)

\* The longest row of unit squares.
MaxRow == 3
\* How many calls a caller makes, each on the result of the one before.
MaxRounds == 2

U == Grid

\* The counter-clockwise rectangle [x0,x1] x [y0,y1] at height z.
Rect(x0, y0, x1, y1, z) == <<<<x0, y0, z>>, <<x1, y0, z>>, <<x1, y1, z>>, <<x0, y1, z>>>>

\* The loop started r vertices later.
Rotate(verts, r) == [i \in 1..Len(verts) |-> verts[((i - 1 + r) % Len(verts)) + 1]]

Wind(verts, ccw) == IF ccw THEN verts ELSE Reverse(verts)

\* The loop moved to the plane y = const (y and z exchanged).
ToXZ(verts) == [i \in 1..Len(verts) |-> <<verts[i][1], verts[i][3], verts[i][2]>>]

Transpose(verts) == [i \in 1..Len(verts) |-> <<verts[i][2], verts[i][1], verts[i][3]>>]

Shift(verts, dx, dy) ==
    [i \in 1..Len(verts) |-> <<verts[i][1] + dx, verts[i][2] + dy, verts[i][3]>>]

InputKey(i) == [pre |-> "Surface_", num |-> Digits(i)]

\* The mapping Surface_1, Surface_2, ... of the given vertex loops.
Items(loops) == [i \in 1..Len(loops) |-> [key |-> InputKey(i), val |-> FormatToJson(loops[i])]]

Perms(k) == {p \in [1..k -> 1..k] : \A i, j \in 1..k : p[i] = p[j] => i = j}

\* k unit squares in a row, given in the order perm, face i started at
\* vertex r0 + i, all wound the same way.
RowLoops(k, perm, r0, ccw, horiz) ==
    [i \in 1..k |->
        LET sq == Rect((perm[i] - 1) * U, 0, perm[i] * U, U, 0)
            placed == IF horiz THEN sq ELSE ToXZ(Transpose(sq))
        IN  Rotate(Wind(placed, ccw), (r0 + i) % 4)]

RowScenes ==
    {[kind |-> "row", items |-> Items(RowLoops(k, perm, r0, ccw, horiz))] :
        <<k, perm, r0, ccw, horiz>> \in
            UNION {{<<k, perm, r0, ccw, horiz>> :
                        perm \in Perms(k), r0 \in 0..3, ccw \in BOOLEAN, horiz \in BOOLEAN}
                      : k \in 2..MaxRow}}

\* Two axis-aligned rectangles a x b and c x d whose only common point is one
\* corner; mirror puts the second at the upper left instead of the upper
\* right of the first.
CornerLoops(a, b, c, d, mirror, ccw) ==
    LET first == Rect(0, 0, a, b, 0)
        second == IF mirror THEN Rect(-c, b, 0, b + d, 0) ELSE Rect(a, b, a + c, b + d, 0)
    IN  <<Wind(first, ccw), Wind(second, ccw)>>

CornerSizes == {<<U, U>>, <<1, 1>>, <<U, 1>>, <<2, U>>}

CornerScenes ==
    {[kind |-> "corner",
      items |-> Items(IF swap THEN Reverse(CornerLoops(s[1], s[2], t[1], t[2], mirror, ccw))
                      ELSE CornerLoops(s[1], s[2], t[1], t[2], mirror, ccw))] :
        s \in CornerSizes, t \in CornerSizes,
        mirror \in BOOLEAN, ccw \in BOOLEAN, swap \in BOOLEAN}

\* A unit square and a triangle below it whose only common point is the
\* corner (U, 0); the triangle's edge from that corner makes an angle of
\* about 5.7 degrees with the square's lower edge.
CornerTriLoops(ccw, r) ==
    <<Wind(Rect(0, 0, U, U, 0), ccw),
      Rotate(Wind(<<<<U, 0, 0>>, <<0, -5, 0>>, <<U, -U, 0>>>>, ccw), r)>>

CornerTriScenes ==
    {[kind |-> "cornertri",
      items |-> Items(IF swap THEN Reverse(CornerTriLoops(ccw, r)) ELSE CornerTriLoops(ccw, r))] :
        ccw \in BOOLEAN, r \in 0..2, swap \in BOOLEAN}

\* One face of 3 distinct points on a line: base + t * step * dir for the
\* three multiples t of order.
CollinearDirs == {<<1, 0, 0>>, <<0, 1, 0>>, <<0, 0, 1>>, <<1, 1, 0>>, <<2, 1, 0>>}

CollinearLoop(order, step, dir) ==
    [i \in 1..3 |-> <<order[i] * step * dir[1], order[i] * step * dir[2],
                      order[i] * step * dir[3]>>]

CollinearScenes ==
    {[kind |-> "collinear",
      items |-> Items(<<CollinearLoop([i \in 1..3 |-> order[i] - 1], step, dir)>>)] :
        order \in Perms(3), step \in {1, 3, U}, dir \in CollinearDirs}


\* A strip one step wide along the upper edge of a unit square's left
\* neighbour cell; strip and square share one step of an edge.
SliverLoops(r, swap) ==
    LET strip == Rotate(Rect(0, U, U + 1, U + 1, 0), r)
        square == Rect(U, 0, 2 * U, U, 0)
    IN  IF swap THEN <<square, strip>> ELSE <<strip, square>>

SliverScenes ==
    {[kind |-> "sliver", items |-> Items(SliverLoops(r, swap))] : r \in 0..3, swap \in BOOLEAN}

\* Faces that meet in other ways.
MixedLoops ==
    {   \* a 2 x 1 rectangle on two unit squares: a T-junction at (U, U)
        <<Rect(0, U, 2 * U, 2 * U, 0), Rect(0, 0, U, U, 0), Rect(U, 0, 2 * U, U, 0)>>,
        \* four rectangles around a square hole
        <<Rect(0, 0, 3 * U, U, 0), Rect(0, 2 * U, 3 * U, 3 * U, 0),
          Rect(0, U, U, 2 * U, 0), Rect(2 * U, U, 3 * U, 2 * U, 0)>>,
        \* neighbours wound in opposite directions
        <<Rect(0, 0, U, U, 0), Reverse(Rect(U, 0, 2 * U, U, 0))>>,
        \* neighbours one step apart in height
        <<Rect(0, 0, U, U, 0), Rect(U, 0, 2 * U, U, 1)>>,
        \* overlapping squares
        <<Rect(0, 0, U, U, 0), Rect(U \div 2, 0, U + U \div 2, U, 0)>>,
        \* neighbours with a gap of one step
        <<Rect(0, 0, U, U, 0), Rect(U + 1, 0, 2 * U, U, 0)>>,
        \* the same square twice
        <<Rect(0, 0, U, U, 0), Rect(0, 0, U, U, 0)>>,
        \* a face that runs out and back along one edge
        <<<<<<0, 0, 0>>, <<U, 0, 0>>, <<U, U, 0>>, <<U, 0, 0>>>>>>,
        \* a square of one step
        <<Rect(0, 0, 1, 1, 0)>>,
        \* an L of three unit squares
        <<Rect(0, 0, U, U, 0), Rect(U, 0, 2 * U, U, 0), Rect(0, U, U, 2 * U, 0)>>,
        \* one unit square
        <<Rect(0, 0, U, U, 0)>>,
        \* a rectangle one step away from the middle of a taller face's edge:
        \* apart at point_tol 0.001, together at 0.05
        <<Rect(0, 0, U, 2 * U, 0), Rect(U + 1, 10, 2 * U, 30, 0)>>,
        \* two unit squares in a row and, away from them, the face that runs
        \* out and back
        <<Rect(0, 0, U, U, 0), Rect(U, 0, 2 * U, U, 0),
          <<<<0, 3 * U, 0>>, <<U, 3 * U, 0>>, <<U, 4 * U, 0>>, <<U, 3 * U, 0>>>>>>
    }

MixedScenes == {[kind |-> "mixed", items |-> Items(loops)] : loops \in MixedLoops}

\* Mappings with a face of fewer than 3 vertices, and the empty mapping.
ShortLoops ==
    {   <<Rect(0, 0, U, U, 0), <<<<0, 0, 0>>, <<U, 0, 0>>>>, Rect(U, 0, 2 * U, U, 0)>>,
        <<<<<<0, 0, 0>>, <<U, 0, 0>>>>>>,
        <<<<>>, Rect(0, 0, U, U, 0)>>,
        <<>>
    }

ShortScenes == {[kind |-> "short", items |-> Items(loops)] : loops \in ShortLoops}

\* The vertex keys of a face inserted out of order, after a key that names
\* no vertex.
Scrambled(verts) ==
    <<[name |-> "Normal_", num |-> <<>>, v |-> <<0, 0, 1>>]>> \o
    Reverse(FormatToJson(verts))

ScrambledScenes ==
    {[kind |-> "scrambled",
      items |-> <<[key |-> InputKey(1), val |-> Scrambled(Rect(0, 0, U, U, 0))],
                  [key |-> InputKey(2), val |-> FormatToJson(Rotate(Rect(U, 0, 2 * U, U, 0), r))]>>] :
        r \in 0..3}

\* Faces of one coordinate plane: fragments scattered over it, shapes
\* that are not convex, points inside the hull and along its sides.
HullLoops ==
    {   \* three scattered triangles
        <<<<<<0, 0, 0>>, <<U, 0, 0>>, <<0, U, 0>>>>,
          <<<<3 * U, 1, 0>>, <<4 * U, 2 * U, 0>>, <<3 * U, 2 * U, 0>>>>,
          <<<<U, 3 * U, 0>>, <<2 * U, 4 * U, 0>>, <<U, 4 * U, 0>>>>>>,
        \* an L of three unit squares
        <<Rect(0, 0, U, U, 0), Rect(U, 0, 2 * U, U, 0), Rect(0, U, U, 2 * U, 0)>>,
        \* a row of three unit squares, clockwise
        <<Reverse(Rect(0, 0, U, U, 0)), Reverse(Rect(U, 0, 2 * U, U, 0)),
          Reverse(Rect(2 * U, 0, 3 * U, U, 0))>>,
        \* one triangle
        <<<<<<0, 0, 0>>, <<U, 0, 0>>, <<0, U, 0>>>>>>,
        \* two faces of 2 vertices that span the plane together
        <<<<<<0, 0, 0>>, <<U, 0, 0>>>>, <<<<0, U, 0>>, <<U, U, 0>>>>>>,
        \* a square and a point of it given three times
        <<Rect(0, 0, U, U, 0), <<<<5, 5, 0>>, <<5, 5, 0>>, <<5, 5, 0>>>>>>,
        \* one vertex
        <<<<<<U, U, 0>>>>>>
    }

\* The same loops in the planes z = 0, y = 0 and x = 0; faces of 3 points
\* on a line from the origin, and faces of fewer than 3 vertices.
HullScenes ==
    {[kind |-> "hull", items |-> Items(loops)] : loops \in HullLoops}
    \cup {[kind |-> "hull", items |-> Items([i \in DOMAIN loops |-> ToXZ(loops[i])])] :
              loops \in HullLoops}
    \cup {[kind |-> "hull",
           items |-> Items([i \in DOMAIN loops |->
                               [j \in DOMAIN loops[i] |->
                                   <<loops[i][j][3], loops[i][j][1], loops[i][j][2]>>]])] :
              loops \in HullLoops}
    \cup {s \in CollinearScenes : s.items[1].val[1].v = <<0, 0, 0>>} \cup ShortScenes

\* The data given to DataModifier.process: faces under other keys than
\* Surface_, and what merge_planes is given elsewhere.
NamedItems ==
    <<[key |-> [pre |-> "Standard_Surface_", num |-> <<7>>],
       val |-> FormatToJson(Rect(0, 0, U, U, 0))],
      [key |-> [pre |-> "Stiffener_Surface_", num |-> <<1, 2>>],
       val |-> FormatToJson(Rect(U, 0, 2 * U, U, 0))],
      [key |-> [pre |-> "Deck_", num |-> <<3>>],
       val |-> FormatToJson(Rect(0, 5 * U, U, 6 * U, 0))],
      [key |-> [pre |-> "Surface_", num |-> <<>>],
       val |-> FormatToJson(Rect(0, 8 * U, U, 9 * U, 0))]>>

\* Two squares apart from each other under the keys Surface_1 and
\* Surface_01.
PaddedItems ==
    <<[key |-> [pre |-> "Surface_", num |-> <<1>>], val |-> FormatToJson(Rect(0, 0, U, U, 0))],
      [key |-> [pre |-> "Surface_", num |-> <<0, 1>>],
       val |-> FormatToJson(Rect(0, 5 * U, U, 6 * U, 0))]>>

ProcessScenes ==
    {[kind |-> "named", items |-> NamedItems], [kind |-> "padded", items |-> PaddedItems]}
        \cup ShortScenes \cup MixedScenes \cup ScrambledScenes \cup SliverScenes
        \cup CornerTriScenes

\* Unit squares over one another at the heights hs (in steps), in that
\* order.
StackLoops(hs) == [i \in DOMAIN hs |-> Rect(0, 0, U, U, hs[i])]

\* The heights 0, 3, 4 and 5 steps in every order, and shorter stacks.
StackHeights ==
    {[i \in 1..4 |-> <<0, 3, 4, 5>>[p[i]]] : p \in Perms(4)}
        \cup {<<0, 0, 0>>, <<0, 1>>, <<1, 0, 2>>, <<0, 3, 0, 3>>}

\* A unit square and faces that lean against its plane: the normal
\* (9, 0, 40) / 41 makes an angle of about 12.7 degrees with (0, 0, 1).
\* The last two faces have the normals -(0, 3, 4) / 5 and -(0, 4, 3) / 5,
\* whose dot product is 0.96.
LeaningLoops ==
    {   <<<<<<0, 0, 0>>, <<U, 0, 0>>, <<U, 40, -30>>, <<0, 40, -30>>>>,
          <<<<0, 0, 0>>, <<U, 0, 0>>, <<U, 30, -40>>, <<0, 30, -40>>>>>>,
        <<Rect(0, 0, U, U, 0),
          <<<<0, 0, 0>>, <<40, 0, -9>>, <<40, U, -9>>, <<0, U, 0>>>>>>,
        <<<<<<0, 0, 0>>, <<40, 0, -9>>, <<40, U, -9>>, <<0, U, 0>>>>,
          Rect(0, 0, U, U, 0),
          <<<<0, 0, 0>>, <<40, 0, 9>>, <<40, U, 9>>, <<0, U, 0>>>>>>,
        <<Rect(0, 0, U, U, 0), Reverse(Rect(U, 0, 2 * U, U, 0)), Rect(0, U, U, 2 * U, 0)>>
    }

\* Two squares joined only through a third that comes later in the list,
\* and a square apart from them.
JoinedLoops(r) ==
    <<Rect(0, 0, U, U, 0), Rect(2 * U, 0, 3 * U, U, 0),
      Rotate(Rect(U, 0, 2 * U, U, 0), r), Rect(5 * U, 0, 6 * U, U, 0)>>

\* A 1 x 2 rectangle and its right neighbour, whose loop starts at the
\* middle (U, U) of their common edge and repeats that point at its end, as
\* a closed polyline does.
RepeatedVertexLoops ==
    <<Rect(0, 0, U, 2 * U, 0),
      <<<<U, U, 0>>, <<U, 0, 0>>, <<2 * U, 0, 0>>, <<2 * U, 2 * U, 0>>, <<U, 2 * U, 0>>,
        <<U, U, 0>>>>>>

\* Two unit squares that overlap by half, and the right neighbour of the
\* second.
OverlapLoops ==
    <<Rect(0, 0, U, U, 0), Rect(U \div 2, 0, U + U \div 2, U, 0),
      Rect(U + U \div 2, 0, 2 * U + U \div 2, U, 0)>>

\* A face 2 steps (0.04) wide and, below it, a face 1 step wide: the
\* corner (1, 0) of the second is the middle of the lower edge of the first.
ShortEdgeLoops == <<Rect(0, 0, 2, U, 0), Rect(0, -U, 1, 0, 0)>>

\* Three faces of the plane y = 0, all wound with normal (0, -1, 0), the
\* triangle reaching across the square: the loop walked from their boundary
\* edges crosses itself and its Newell sum is zero.
CrossedLoops ==
    <<<< <<30, 0, 30>>, <<30, 0, 20>>, <<20, 0, 20>>, <<20, 0, 30>> >>,
      << <<30, 0, 30>>, <<10, 0, 20>>, <<0, 0, 20>> >>,
      << <<30, 0, 20>>, <<30, 0, 0>>, <<0, 0, 0>>, <<0, 0, 20>> >> >>

\* The face lists on which the stages of a pass are looked at one by one.
\* One face with a hole, given as a single vertex loop: round the outer
\* square, along a slit from its first corner to the inner square, round
\* the inner square the other way, and back along the slit.
KeyholeLoops ==
    << << <<0, 0, 0>>, <<30, 0, 0>>, <<30, 30, 0>>, <<0, 30, 0>>, <<0, 0, 0>>,
          <<10, 10, 0>>, <<10, 20, 0>>, <<20, 20, 0>>, <<20, 10, 0>>, <<10, 10, 0>> >> >>

KeyholeScenes == {[kind |-> "keyhole", items |-> Items(KeyholeLoops)]}

PlaneScenes ==
    {[kind |-> "repeated", items |-> Items(RepeatedVertexLoops)],
     [kind |-> "overlap", items |-> Items(OverlapLoops)],
     [kind |-> "shortedge", items |-> Items(ShortEdgeLoops)],
     [kind |-> "crossed", items |-> Items(CrossedLoops)]} \cup
    {[kind |-> "chain", items |-> Items(JoinedLoops(r))] : r \in 0..3} \cup
    {[kind |-> "stack", items |-> Items(StackLoops(hs))] : hs \in StackHeights}
        \cup {[kind |-> "leaning", items |-> Items(loops)] : loops \in LeaningLoops}
        \cup MixedScenes \cup CornerTriScenes \cup SliverScenes

Scenes ==
    RowScenes \cup CornerScenes \cup CornerTriScenes \cup CollinearScenes
        \cup SliverScenes \cup MixedScenes \cup ShortScenes \cup ScrambledScenes
        \cup KeyholeScenes

-----------------------------------------------------------------------------
(* merge_planes as a state machine.  A caller holds one GeometryMerger and  *)
(* calls merge_planes on it: first on the scene, then on what the call      *)
(* before returned.  A call is cut where it reads or writes self.point_tol, *)
(* so that calls of several callers interleave as threads do.               *)

\* __init__'s defaults, and the values DataModifier passes for norm_tol and
\* dist_tol, in thousandths.
DefaultPointTol == 1
DefaultNormTol == 10
DefaultDistTol == 10
\* relaxed_tol = 0.05
RelaxedTol == 50
\* for i in range(2)
Passes == 2

\* The point_tol values a merger is constructed with: the default and
\* 0.005.
PointTols == {DefaultPointTol, 5}

Mergers == {"m1", "m2"}

VARIABLES
    scene,      \* the input of the first call
    callers,    \* the callers that run
    self,       \* caller -> the merger it calls
    merger,     \* merger -> its fields norm_tol, dist_tol, point_tol
    call,       \* caller -> the frame of its call and where it stands
    log,        \* caller -> the passes its calls have run (history)
    returned    \* caller -> what its calls have returned (history)

vars == <<scene, callers, self, merger, call, log, returned>>

\* GeometryMerger(norm_tol, dist_tol, point_tol)
GeometryMerger(norm_tol, dist_tol, point_tol) ==
    [norm_tol |-> norm_tol, dist_tol |-> dist_tol, point_tol |-> point_tol]

\* The frame of a caller about to make its round-th call: arg is what it
\* will pass, left how many calls it makes after this one.
IdleFrame(arg, round, left) ==
    [pc |-> "idle", round |-> round, left |-> left, arg |-> arg, current_data |-> <<>>,
     original_point_tol |-> 0, configured |-> 0, i |-> 0, input_count |-> 0,
     new_data |-> <<>>,
     all_verts |-> <<>>, normal |-> NpArray("float", <<0, 0, 0>>),
     x_axis |-> NpArray("float", <<0, 0, 0>>), y_axis |-> NpArray("float", <<0, 0, 0>>),
     exc |-> "none", enable_merge |-> TRUE, valid_data |-> <<>>]

\* The callers of first make MaxRounds calls in a row, the others one.
InitWith(cs, first, assign, scenes) ==
    /\ scene \in scenes
    /\ callers = cs
    /\ self \in assign
    /\ \E t \in PointTols :
           merger = [m \in Mergers |-> GeometryMerger(DefaultNormTol, DefaultDistTol, t)]
    /\ call = [c \in cs |-> IdleFrame(scene.items, 1, IF c \in first THEN MaxRounds - 1 ELSE 0)]
    /\ log = [c \in cs |-> <<>>]
    /\ returned = [c \in cs |-> <<>>]

\* One caller on its own merger, every scene.
Init == InitWith({"a"}, {"a"}, {[c \in {"a"} |-> "m1"]}, Scenes)

\* point_tol kept in one place for all mergers.
SelfOfShared(c) == "m1"

\* self inside a call of caller c: the merger the method was called on.
SelfOf(c) == self[c]

\* Lines 93-95: current_data = plane_items; original_point_tol = self.point_tol.
\* configured remembers the merger's point_tol at that moment.
Call(c) ==
    /\ call[c].pc = "idle"
    /\ call' = [call EXCEPT ![c] =
                   [@ EXCEPT !.pc = "head",
                             !.current_data = call[c].arg,
                             !.original_point_tol = merger[SelfOf(c)].point_tol,
                             !.configured = merger[SelfOf(c)].point_tol,
                             !.i = 0]]
    /\ UNCHANGED <<scene, callers, self, merger, log, returned>>

\* Lines 97-105: the head of the loop body; pass 2 relaxes self.point_tol.
BeginPass(c) ==
    /\ call[c].pc = "head"
    /\ call[c].i < Passes
    /\ call' = [call EXCEPT ![c] =
                   [@ EXCEPT !.pc = "exec", !.input_count = Len(call[c].current_data)]]
    /\ merger' = IF call[c].i + 1 = 2
                     THEN [merger EXCEPT ![SelfOf(c)].point_tol = RelaxedTol]
                 ELSE merger
    /\ UNCHANGED <<scene, callers, self, log, returned>>

\* Line 107: new_data = self._execute_single_pass(current_data, pass_num).
\* The pass takes the merger's tolerances as they are when it starts.
\* The pass of caller c on merger m has given res.
Executed(c, m, res) ==
    /\ call' = [call EXCEPT ![c] = [@ EXCEPT !.pc = "tail", !.new_data = res.out]]
    /\ log' = [log EXCEPT ![c] =
                  Append(@, [round |-> call[c].round, pass_num |-> call[c].i + 1,
                             point_tol |-> m.point_tol, configured |-> call[c].configured,
                             input |-> call[c].current_data, res |-> res])]

ExecPassOn(c, m) ==
    Executed(c, m, ExecuteSinglePass(call[c].current_data, m.point_tol, m.norm_tol, m.dist_tol))

ExecPass(c) ==
    /\ call[c].pc = "exec"
    /\ ExecPassOn(c, merger[SelfOf(c)])
    /\ UNCHANGED <<scene, callers, self, merger, returned>>

\* self.point_tol left as pass 2 set it.
NotRestoredTol(original_point_tol, now) == now

\* Lines 112-113: the value self.point_tol gets after pass 2.
RestoredTol(original_point_tol, now) == original_point_tol

\* The early return taken whenever a pass leaves the count unchanged.
StopsEarlyAnyPass(input_count, output_count, pass_num) == input_count = output_count

\* Lines 115-116: return new_data without going round the loop again.
StopsEarly(input_count, output_count, pass_num) ==
    input_count = output_count /\ pass_num = 2

\* A return that leaves the caller's mapping emptied.
ReturnEmptyingInput(c, value, line) ==
    /\ call' = [call EXCEPT ![c] = [@ EXCEPT !.pc = "done", !.arg = <<>>]]
    /\ returned' = [returned EXCEPT ![c] =
                       Append(@, [round |-> call[c].round, value |-> value, line |-> line,
                                  point_tol |-> merger'[SelfOf(c)].point_tol,
                                  configured |-> call[c].configured])]

\* return at the given line: the frame is left and the value handed over.
Return(c, value, line) ==
    /\ call' = [call EXCEPT ![c] = [@ EXCEPT !.pc = "done"]]
    /\ returned' = [returned EXCEPT ![c] =
                       Append(@, [round |-> call[c].round, value |-> value, line |-> line,
                                  point_tol |-> merger'[SelfOf(c)].point_tol,
                                  configured |-> call[c].configured])]

\* Lines 109-120: the rest of the loop body, and the return after the loop.
EndPass(c) ==
    LET pass_num == call[c].i + 1
        output_count == Len(call[c].new_data)
    IN  /\ call[c].pc = "tail"
        /\ merger' = IF pass_num = 2
                         THEN [merger EXCEPT ![SelfOf(c)].point_tol =
                                  RestoredTol(call[c].original_point_tol, @)]
                     ELSE merger
        /\ IF StopsEarly(call[c].input_count, output_count, pass_num)
               THEN Return(c, call[c].new_data, 116)
           ELSE IF call[c].i + 1 < Passes
               THEN /\ call' = [call EXCEPT ![c] =
                                   [@ EXCEPT !.pc = "head",
                                             !.current_data = call[c].new_data,
                                             !.i = call[c].i + 1]]
                    /\ UNCHANGED returned
           ELSE Return(c, call[c].new_data, 120)
        /\ UNCHANGED <<scene, callers, self, log>>

\* The caller passes what its call returned to a further call.
Feed(c) ==
    /\ call[c].pc = "done"
    /\ call[c].left > 0
    /\ call' = [call EXCEPT ![c] =
                   IdleFrame(returned[c][Len(returned[c])].value, call[c].round + 1,
                             call[c].left - 1)]
    /\ UNCHANGED <<scene, callers, self, merger, log, returned>>

Next ==
    \E c \in callers :
        \/ Call(c)
        \/ BeginPass(c)
        \/ ExecPass(c)
        \/ EndPass(c)
        \/ Feed(c)

Spec == Init /\ [][Next]_vars

\* Two callers at once, on one merger or on one each, on a few scenes.
ConcScenes ==
    {[kind |-> "mixed", items |-> Items(loops)] :
        loops \in {<<Rect(0, 0, U, U, 0)>>,
                   <<Rect(0, 0, U, 2 * U, 0), Rect(U + 1, 10, 2 * U, 30, 0)>>}}

InitConc ==
    InitWith({"a", "b"}, {"a"},
             {[c \in {"a", "b"} |-> "m1"], [c \in {"a", "b"} |-> IF c = "a" THEN "m1" ELSE "m2"]},
             ConcScenes)

SpecConc == InitConc /\ [][Next]_vars

-----------------------------------------------------------------------------
(* merge_by_convex_hull as a state machine: a caller calls either method   *)
(* on its merger, first on the scene, then on what the call before         *)
(* returned.  The call is cut at the two library calls whose outcome the   *)
(* code branches on.                                                       *)

\* Lines 20-36: collect the vertices; fewer than 3 return the input.
HullCall(c) ==
    /\ call[c].pc = "idle"
    /\ UNCHANGED <<scene, callers, self, merger, log>>
    /\ IF Len(AllVerts(call[c].arg)) < 3
           THEN Return(c, call[c].arg, 34)
       ELSE /\ call' = [call EXCEPT ![c] =
                           [@ EXCEPT !.pc = "fit", !.all_verts = AllVerts(call[c].arg)]]
            /\ UNCHANGED returned

\* Lines 50-62 for the normal of lines 42-47.
Basis(c, normal, xa) ==
    IF xa.raised
        THEN call' = [call EXCEPT ![c] = [@ EXCEPT !.pc = "raised", !.normal = normal,
                                                   !.exc = "UFuncTypeError"]]
    ELSE call' = [call EXCEPT ![c] = [@ EXCEPT !.pc = "wrap", !.normal = normal,
                                               !.x_axis = xa.x_axis,
                                               !.y_axis = YAxis(normal, xa.x_axis)]]

\* Lines 39-62: np.linalg.svd either raises LinAlgError or gives vh.
HullFit(c) ==
    /\ call[c].pc = "fit"
    /\ \/ Basis(c, NormalAfterSvd(TRUE, NpArray("float", <<0, 0, 0>>)),
                XAxis(NormalAfterSvd(TRUE, NpArray("float", <<0, 0, 0>>))))
       \/ \E vh2 \in SvdNormals(Centered(call[c].all_verts)) :
              Basis(c, NormalAfterSvd(FALSE, vh2), XAxis(NormalAfterSvd(FALSE, vh2)))
    /\ UNCHANGED <<scene, callers, self, merger, log, returned>>

\* Lines 76-90 whatever the outcome of ConvexHull.
WrappedNoExcept(c, hull, first) ==
    Return(c, HullResult(Lifted(Rotate(hull.hull_points_2d, first),
                                VecSum(call[c].all_verts), Len(call[c].all_verts),
                                call[c].x_axis, call[c].y_axis)), 90)

\* Lines 70-90 for the outcome of ConvexHull; first is the vertex the
\* library lists first.
Wrapped(c, hull, first) ==
    IF hull.raised THEN Return(c, call[c].arg, 75)
    ELSE Return(c, HullResult(Lifted(Rotate(hull.hull_points_2d, first),
                                     VecSum(call[c].all_verts), Len(call[c].all_verts),
                                     call[c].x_axis, call[c].y_axis)), 90)

\* Lines 65-90
HullWrap(c) ==
    /\ call[c].pc = "wrap"
    /\ UNCHANGED <<scene, callers, self, merger, log>>
    /\ \E first \in 0..2 :
           Wrapped(c, ConvexHull(Points2d(Centered(call[c].all_verts),
                                          call[c].x_axis, call[c].y_axis)), first)

NextHull ==
    \E c \in callers :
        \/ Call(c)
        \/ BeginPass(c)
        \/ ExecPass(c)
        \/ EndPass(c)
        \/ Feed(c)
        \/ HullCall(c)
        \/ HullFit(c)
        \/ HullWrap(c)

InitHull == InitWith({"a"}, {"a"}, {[c \in {"a"} |-> "m1"]}, HullScenes)

SpecHull == InitHull /\ [][NextHull]_vars

-----------------------------------------------------------------------------
(* The schedule of merge_planes.                                           *)

\* The passes caller c ran in its round-th call.
PassesOf(c, round) == SelectSeq(log[c], LAMBDA l : l.round = round)

\* What caller c passed to its round-th call.
ArgOf(c, k) == IF k = 1 THEN scene.items ELSE returned[c][k - 1].value

\* C1: every merge_planes call runs exactly two passes in order: pass 1 at
\* the configured point_tol on the argument, pass 2 at point_tol 0.05 (50
\* thousandths) on pass 1's output; it returns pass 2's output whether or
\* not pass 2 changed the face count; no call ever runs a third pass.
C1_TwoPassSchedule ==
    \A c \in callers :
        /\ \A l \in Range(log[c]) : Len(PassesOf(c, l.round)) <= 2
        /\ \A k \in DOMAIN returned[c] :
               LET ret == returned[c][k]
                   ps == PassesOf(c, ret.round)
               IN  /\ Len(ps) = 2
                   /\ ps[1].pass_num = 1
                   /\ ps[1].point_tol = ret.configured
                   /\ ps[1].input = ArgOf(c, ret.round)
                   /\ ps[2].pass_num = 2
                   /\ ps[2].point_tol = 50
                   /\ ps[2].input = ps[1].res.out
                   /\ ret.value = ps[2].res.out

\* A caller has made a call whose pass 2 changed the face count and a call
\* whose pass 2 left it unchanged, and both have returned.
C1_Witness ==
    \E c \in callers : \E j, k \in DOMAIN returned[c] :
        /\ Len(PassesOf(c, j)[2].res.out) # Len(PassesOf(c, j)[2].input)
        /\ returned[c][j].line = 120
        /\ Len(PassesOf(c, k)[2].res.out) = Len(PassesOf(c, k)[2].input)
        /\ returned[c][k].line = 116

\* C2: when a call running alone on a merger returns, the merger's
\* point_tol is what it was immediately before the call, and stays so
\* until the caller's next call.
C2_PointTolRestored ==
    \A c \in callers :
        /\ \A k \in DOMAIN returned[c] : returned[c][k].point_tol = returned[c][k].configured
        /\ call[c].pc = "done" =>
               merger[self[c]].point_tol = returned[c][Len(returned[c])].configured

\* A call has returned whose pass 2 ran at 0.05 on a merger configured
\* otherwise.
C2_Witness ==
    \E c \in callers : \E k \in DOMAIN returned[c] :
        /\ returned[c][k].configured # 50
        /\ PassesOf(c, k)[2].point_tol = 50
        /\ call[c].pc = "done"
        /\ merger[self[c]].point_tol = returned[c][k].configured

\* A pass 1 ran at the relaxed point_tol.
Pass1Relaxed == \E c \in callers : \E l \in Range(log[c]) : l.pass_num = 1 /\ l.point_tol = 50

\* Every caller has returned from its last call and a merger is left with
\* the relaxed point_tol.
StuckRelaxed ==
    /\ \A c \in callers : call[c].pc = "done" /\ call[c].left = 0
    /\ \E c \in callers : merger[self[c]].point_tol = 50

SharedMerger == \E c, d \in callers : c # d /\ self[c] = self[d]

\* C3: with two concurrent callers, a pass 1 at the relaxed point_tol, or
\* a point_tol still 0.05 after all calls have returned, happens only when
\* the callers share one merger (and then it does happen: C3_Witness);
\* callers with a merger each never reach such a state.
C3_UnsafeOnlyWhenShared == (Pass1Relaxed \/ StuckRelaxed) => SharedMerger

\* Two calls on one merger have interleaved so that a pass 1 ran at 0.05
\* and point_tol is still 0.05 after both callers have finished.
C3_Witness == SharedMerger /\ Pass1Relaxed /\ StuckRelaxed

-----------------------------------------------------------------------------
(* What one pass does with its faces.                                      *)

AllPasses == UNION {Range(log[c]) : c \in callers}

\* The vertex loops of a mapping, in its order.
LoopsOf(mapping) == [i \in DOMAIN mapping |-> ExtractVertices(mapping[i].val)]

\* The vertex loop the mapping holds under key.
LoopAt(mapping, key) ==
    ExtractVertices((CHOOSE e \in Range(mapping) : e.key = key).val)

\* The keys of the faces of a mapping that have at least 3 vertices.
KeysWith3(mapping) == {e.key : e \in {e \in Range(mapping) : Len(ExtractVertices(e.val)) >= 3}}

\* In how many places of the clusters of a pass the key stands.
PlacesOf(key, clusters) ==
    Len(SelectSeq(Flatten([c \in DOMAIN clusters |-> clusters[c].keys]), LAMBDA k : k = key))

\* Every face of the input with at least 3 vertices is in exactly one
\* cluster, clusters hold no other keys, each cluster emits its merged
\* polygons or else the original loops of all its members, and the output
\* is what the clusters emitted.
PassKeepsFaces(l) ==
    /\ \A key \in KeysWith3(l.input) : PlacesOf(key, l.res.clusters) = 1
    /\ \A c \in DOMAIN l.res.clusters :
           LET cl == l.res.clusters[c]
           IN  /\ Range(cl.keys) \subseteq KeysWith3(l.input)
               /\ cl.merged \/ cl.loops = [f \in DOMAIN cl.keys |-> LoopAt(l.input, cl.keys[f])]
               /\ cl.loops # <<>>
    /\ LoopsOf(l.res.out) = Flatten([c \in DOMAIN l.res.clusters |-> l.res.clusters[c].loops])

C5_AtLeast3Vertices ==
    /\ \A c \in callers : \A k \in DOMAIN returned[c] :
           \A i \in DOMAIN returned[c][k].value :
               Len(ExtractVertices(returned[c][k].value[i].val)) >= 3
    /\ \A l \in AllPasses : \A c \in DOMAIN l.res.clusters :
           l.res.clusters[c].merged =>
               \A k \in DOMAIN l.res.clusters[c].loops : Len(l.res.clusters[c].loops[k]) >= 3

\* The loops of a cluster's boundary after cleanup.
CleanedLoops(cluster, pt) ==
    LET all_loops == ChainEdgesAll(BoundaryEdges(ResolveTJunctions(cluster, pt)))
    IN  [k \in DOMAIN all_loops |-> OrientedLoop(all_loops[k], cluster, pt)]

\* A call has returned a polygon, and in one of its passes cleanup left a
\* loop of fewer than 3 vertices, so that the cluster's merge was abandoned.
C5_Witness ==
    \E c \in callers : \E k \in DOMAIN returned[c] :
        /\ returned[c][k].value # <<>>
        /\ \E l \in Range(PassesOf(c, k)) :
               LET clusters == ClusterList(FaceList(l.input), l.point_tol,
                                           DefaultNormTol, DefaultDistTol)
               IN  \E j \in DOMAIN clusters :
                       /\ ~l.res.clusters[j].merged
                       /\ \E n \in DOMAIN CleanedLoops(clusters[j], l.point_tol) :
                              Len(CleanedLoops(clusters[j], l.point_tol)[n]) < 3

\* C6: in every pass the emitted polygons get distinct keys: the output
\* has as many entries as polygons were emitted, no key twice, and entry i
\* holds the i-th emitted polygon.
C6_DistinctKeys ==
    \A l \in AllPasses :
        LET emitted == Flatten([c \in DOMAIN l.res.clusters |-> l.res.clusters[c].loops])
        IN  /\ Len(l.res.out) = Len(emitted)
            /\ l.res.emitted = Len(emitted)
            /\ \A i, j \in DOMAIN l.res.out : l.res.out[i].key = l.res.out[j].key => i = j
            /\ \A i \in DOMAIN l.res.out : ExtractVertices(l.res.out[i].val) = emitted[i]

\* A pass that emitted merged polygons of one cluster and passed the face
\* of another through.
C6_Witness ==
    \E l \in AllPasses :
        /\ \E c \in DOMAIN l.res.clusters : l.res.clusters[c].merged
        /\ \E c \in DOMAIN l.res.clusters : ~l.res.clusters[c].merged
        /\ Len(l.res.out) >= 2

-----------------------------------------------------------------------------
(* What merge_planes returns.                                              *)

\* The first call of caller c has returned.
Returned1(c) == Len(returned[c]) >= 1

\* C7 as claimed: merge_planes is idempotent on its own output: a call on
\* what a call returned returns the same set of vertex loops, and as many.
C7_Idempotent ==
    \A c \in callers : \A k \in DOMAIN returned[c] :
        k > 1 =>
            /\ Range(LoopsOf(returned[c][k].value)) = Range(LoopsOf(returned[c][k - 1].value))
            /\ Len(returned[c][k].value) = Len(returned[c][k - 1].value)

\* The vertices of the scene's faces.
SceneVertices == UNION {Range(ExtractVertices(e.val)) : e \in Range(scene.items)}

\* The vertices of the scene that are extreme in every coordinate: for a
\* row of squares the corners of the k x 1 rectangle.
SceneCorners ==
    {v \in SceneVertices :
        \A i \in 1..3 : \/ \A w \in SceneVertices : w[i] <= v[i]
                        \/ \A w \in SceneVertices : w[i] >= v[i]}

\* C8: for k coplanar unit squares in a row, all wound the same way (k from
\* 2 to MaxRow), merge_planes returns exactly one polygon, of exactly 4
\* vertices, the corners of the k x 1 rectangle.
C8_RowBecomesRectangle ==
    scene.kind = "row" =>
        \A c \in callers :
            Returned1(c) =>
                /\ Len(returned[c][1].value) = 1
                /\ Len(LoopsOf(returned[c][1].value)[1]) = 4
                /\ Range(LoopsOf(returned[c][1].value)[1]) = SceneCorners

\* The call on a row of 3 squares has returned.
C8_Witness ==
    /\ scene.kind = "row"
    /\ Len(scene.items) = 3
    /\ \E c \in callers : Returned1(c) /\ Len(PassesOf(c, 1)[1].res.clusters[1].keys) = 3

\* No cluster of the first call's passes holds two faces, both passes have
\* run, and the call returns two faces.
StaysApart(c) ==
    /\ \A l \in Range(PassesOf(c, 1)) : \A j \in DOMAIN l.res.clusters :
           Len(l.res.clusters[j].keys) = 1
    /\ Returned1(c) =>
           /\ Len(returned[c][1].value) = 2
           /\ Len(PassesOf(c, 1)) = 2

\* C9 as the code has it: two coplanar axis-aligned rectangles whose only
\* contact is one shared corner point are never put in the same cluster, in
\* pass 1 or in pass 2, and merge_planes returns two faces for them.
C9_CornerRectanglesApart == scene.kind = "corner" => \A c \in callers : StaysApart(c)

\* C9 as claimed: any two coplanar faces whose only contact is one shared
\* corner point are never put in the same cluster, and merge_planes
\* returns two faces for them.
C9_AsClaimed ==
    scene.kind \in {"corner", "cornertri"} => \A c \in callers : StaysApart(c)

\* The call on two rectangles that share a corner has returned, its pass 2
\* having run at 0.05 on two clusters.
C9_Witness ==
    /\ scene.kind = "corner"
    /\ \E c \in callers :
           /\ Returned1(c)
           /\ PassesOf(c, 1)[2].point_tol = 50
           /\ Len(PassesOf(c, 1)[2].res.clusters) = 2

\* C10: a face of 3 collinear points given alone to merge_planes gets the
\* fallback normal (0,1,0), every pass hands it on as it is, and the call
\* returns one face whose vertex loop is the input loop.
C10_DegenerateFacePassesThrough ==
    scene.kind = "collinear" =>
        LET loop == ExtractVertices(scene.items[1].val)
        IN  /\ CalculateNormal(loop) = [v |-> <<0, 1, 0>>, len |-> 1]
            /\ \A c \in callers :
                   /\ \A l \in Range(PassesOf(c, 1)) : LoopsOf(l.res.out) = <<loop>>
                   /\ Returned1(c) => LoopsOf(returned[c][1].value) = <<loop>>

\* The call on a face of 3 collinear points has returned after two passes
\* in which the face's cluster was not merged.
C10_Witness ==
    /\ scene.kind = "collinear"
    /\ \E c \in callers :
           /\ Returned1(c)
           /\ Len(PassesOf(c, 1)) = 2
           /\ \A l \in Range(PassesOf(c, 1)) : ~l.res.clusters[1].merged

-----------------------------------------------------------------------------
(* Areas.                                                                  *)

\* Seen against the vector n, r is to the left of the line from p to q
\* (positive), on it (zero) or to its right (negative).
Side(p, q, r, n) == Dot(Cross(Sub(q, p), Sub(r, p)), n)

\* Twice the area of the polygon loop: the length of Newell's sum, taken
\* as the greatest common divisor g of its components times the length of
\* the reduced vector.
Area2Of(sx, sy, sz, g) ==
    IF g = 0 THEN 0 ELSE g * Sqrt(Len2(<<sx \div g, sy \div g, sz \div g>>))

Area2Sums(sx, sy, sz) == Area2Of(sx, sy, sz, Gcd(Gcd(Abs(sx), Abs(sy)), Abs(sz)))

Area2(loop) ==
    Area2Sums(NewellSum(loop, 2, 3), NewellSum(loop, 3, 1), NewellSum(loop, 1, 2))

\* Seen against n, the line through p and q has the polygon fa on one side
\* and the polygon fb on the other (points on the line are on both sides).
SeparatedBy(p, q, fa, fb, n) ==
    \/ /\ \A v \in Range(fa) : ~(Side(p, q, v, n) < 0)
       /\ \A w \in Range(fb) : ~(Side(p, q, w, n) > 0)
    \/ /\ \A v \in Range(fa) : ~(Side(p, q, v, n) > 0)
       /\ \A w \in Range(fb) : ~(Side(p, q, w, n) < 0)

\* The line of an edge of one of the two polygons has them on either side:
\* they do not overlap.
Apart(fa, fb, n) ==
    \/ \E i \in DOMAIN fa : SeparatedBy(fa[i], fa[Next1(i, Len(fa))], fa, fb, n)
    \/ \E i \in DOMAIN fb : SeparatedBy(fb[i], fb[Next1(i, Len(fb))], fa, fb, n)

\* The vertex loops of the faces of the mapping input with the given keys.
FacesAt(input, keys) == [f \in DOMAIN keys |-> LoopAt(input, keys[f])]

\* No two of the faces overlap, seen against the normal of the first.
NoneOverlap(faces) ==
    \A i, j \in DOMAIN faces :
        i < j => Apart(faces[i], faces[j], CalculateNormal(faces[1]).v)

\* C18 as claimed: for every cluster whose merge is accepted and whose
\* member faces do not overlap, the areas of the merged polygons emitted
\* for the cluster add up to the area of the union of the member faces,
\* which is the sum of their areas.
C18_AreaPreserved ==
    \A c \in callers : \A l \in Range(log[c]) :
        \A k \in DOMAIN l.res.clusters :
            (l.res.clusters[k].merged /\ NoneOverlap(FacesAt(l.input, l.res.clusters[k].keys)))
                => SeqSum([p \in DOMAIN l.res.clusters[k].loops |->
                              Area2(l.res.clusters[k].loops[p])])
                       = SeqSum([f \in DOMAIN l.res.clusters[k].keys |->
                                    Area2(LoopAt(l.input, l.res.clusters[k].keys[f]))])

-----------------------------------------------------------------------------
(* One pass stage by stage.  Two callers, each with a merger of its own,   *)
(* take the same mapping through the stages of _execute_single_pass, as    *)
(* the tolerance sweep of analyze_tolerance gives one mapping to mergers   *)
(* of growing tolerance.  log keeps what each stage made.                  *)

\* The keys of the faces of a list.
KeysOf(faces) == [f \in DOMAIN faces |-> faces[f].original_key]

\* The tolerances of the sweep that are looked at: 0.01, 0.04, 0.05 and 0.07.
SweepTols == {DefaultNormTol, 40, RelaxedTol, 70}

\* Lines 127-146: face_list and plane_groups.
GroupFaces(c) ==
    /\ call[c].pc = "faces"
    /\ call' = [call EXCEPT ![c] = [@ EXCEPT !.pc = "groups"]]
    /\ log' = [log EXCEPT ![c] =
                  Append(@, [stage |-> "plane_groups",
                             face_list |-> FaceList(call[c].arg),
                             plane_groups |->
                                 GroupByPlane(FaceList(call[c].arg),
                                              merger[SelfOf(c)].norm_tol,
                                              merger[SelfOf(c)].dist_tol)])]
    /\ UNCHANGED <<scene, callers, self, merger, returned>>

\* Lines 149-152: the clusters of each plane group.
ClusterGroups(c) ==
    /\ call[c].pc = "groups"
    /\ call' = [call EXCEPT ![c] = [@ EXCEPT !.pc = "clusters"]]
    /\ log' = [log EXCEPT ![c] =
                  Append(@, [stage |-> "clusters",
                             clusters |->
                                 [g \in DOMAIN log[c][1].plane_groups |->
                                     ClusterByAdjacency(log[c][1].plane_groups[g],
                                                        merger[SelfOf(c)].point_tol,
                                                        merger[SelfOf(c)].norm_tol)]])]
    /\ UNCHANGED <<scene, callers, self, merger, returned>>

\* The clusters of the pass of caller c, group after group.
ClustersMade(c) == Flatten(log[c][2].clusters)

\* Lines 154-166 and 174-202 for one cluster: the boundary edges, the walks
\* of _chain_edges_all over them, and what the cluster emits.
MergedCluster(cluster, edges, out) ==
    [keys |-> KeysOf(cluster), boundary_edges |-> edges,
     walks |-> ChainWalks(BuildAdj(<<>>, edges)), merged |-> out.merged, loops |-> out.loops]

\* Lines 153-166: every cluster is merged, or its faces are handed on.
MergeClusters(c) ==
    /\ call[c].pc = "clusters"
    /\ call' = [call EXCEPT ![c] = [@ EXCEPT !.pc = "merged"]]
    /\ log' = [log EXCEPT ![c] =
                  Append(@, [stage |-> "merged",
                             outs |->
                                 [n \in DOMAIN ClustersMade(c) |->
                                     MergedCluster(
                                         ClustersMade(c)[n],
                                         BoundaryEdges(ResolveTJunctions(
                                             ClustersMade(c)[n], merger[SelfOf(c)].point_tol)),
                                         ClusterOutput(ClustersMade(c)[n],
                                                       merger[SelfOf(c)].point_tol))]])]
    /\ UNCHANGED <<scene, callers, self, merger, returned>>

NextPlane ==
    \E c \in callers :
        \/ GroupFaces(c)
        \/ ClusterGroups(c)
        \/ MergeClusters(c)

\* Line 52 of the sweep: norm_tol = dist_tol = tol.  Caller a's merger m1
\* has a tolerance no larger than that of caller b's merger m2; both have
\* the point_tol of one of the two passes.
InitPlane ==
    /\ scene \in PlaneScenes
    /\ callers = {"a", "b"}
    /\ self = [c \in {"a", "b"} |-> IF c = "a" THEN "m1" ELSE "m2"]
    /\ \E tol1, tol2 \in SweepTols :
           /\ ~(tol1 > tol2)
           /\ \E pt \in {DefaultPointTol, RelaxedTol} :
                  merger = [m \in Mergers |->
                               IF m = "m1" THEN GeometryMerger(tol1, tol1, pt)
                               ELSE GeometryMerger(tol2, tol2, pt)]
    /\ call = [c \in {"a", "b"} |-> [IdleFrame(scene.items, 1, 0) EXCEPT !.pc = "faces"]]
    /\ log = [c \in {"a", "b"} |-> <<>>]
    /\ returned = [c \in {"a", "b"} |-> <<>>]

SpecPlane == InitPlane /\ [][NextPlane]_vars

\* The lists parts hold every element of whole exactly once, and none of
\* them is empty.
Partitions(parts, whole) ==
    /\ \A p \in DOMAIN parts : parts[p] # <<>>
    /\ \A x \in Range(whole) :
           Len(SelectSeq(Flatten(parts), LAMBDA y : y = x)) = 1
    /\ Range(Flatten(parts)) \subseteq Range(whole)

\* C15: _group_by_plane puts every face of the list in exactly one group
\* and makes no empty group.
C15_GroupsPartition ==
    \A c \in callers : \A k \in DOMAIN log[c] :
        log[c][k].stage = "plane_groups" =>
            Partitions([g \in DOMAIN log[c][k].plane_groups |->
                           KeysOf(log[c][k].plane_groups[g])],
                       KeysOf(log[c][k].face_list))

\* _group_by_plane has made several groups, one of them of several faces.
C15_Witness ==
    \E c \in callers : \E k \in DOMAIN log[c] :
        /\ log[c][k].stage = "plane_groups"
        /\ Len(log[c][k].plane_groups) > 1
        /\ \E g \in DOMAIN log[c][k].plane_groups : Len(log[c][k].plane_groups[g]) > 1

\* The number of faces in the group that holds the face of the given key.
GroupSizeOf(plane_groups, key) ==
    Len((CHOOSE g \in Range(plane_groups) : key \in Range(KeysOf(g))))

\* C16 as claimed: for one ordered face list, a merger with larger norm_tol
\* or dist_tol (and neither smaller) never puts a face in a smaller plane
\* group than a merger with the smaller tolerances does.
C16_GroupsGrowWithTolerance ==
    (log["a"] # <<>> /\ log["b"] # <<>>) =>
        \A key \in Range(KeysOf(log["a"][1].face_list)) :
            ~(GroupSizeOf(log["b"][1].plane_groups, key)
                  < GroupSizeOf(log["a"][1].plane_groups, key))

\* The faces of the group that touch one of the faces of set, the
\* predicate being asked of the pair with the lower index first.
Touched(group, set, pt, nt) ==
    {j \in DOMAIN group :
        \E i \in set : \/ i < j /\ AreFacesTouching(group[i], group[j], pt, nt)
                       \/ j < i /\ AreFacesTouching(group[j], group[i], pt, nt)}

\* The faces joined to those of set by a chain of touching faces of at
\* most steps links.
RECURSIVE ChainedTo(_, _, _, _, _)
ChainedTo(group, set, steps, pt, nt) ==
    IF steps = 0 THEN set
    ELSE ChainedTo(group, set \cup Touched(group, set, pt, nt), steps - 1, pt, nt)

\* The indices in group of the faces of cluster.
IndicesOf(group, cluster) ==
    {i \in DOMAIN group : group[i].original_key \in Range(KeysOf(cluster))}

\* The clusters made of one group: each is the set of faces chained to any
\* of its faces.
ClosedUnderTouching(group, clusters, pt, nt) ==
    \A k \in DOMAIN clusters : \A i \in IndicesOf(group, clusters[k]) :
        ChainedTo(group, {i}, Len(group), pt, nt) = IndicesOf(group, clusters[k])

\* The stage of caller c's pass that made the plane groups.
GroupsOf(c) == log[c][1].plane_groups

\* C17: the clusters _cluster_by_adjacency makes of a plane group hold every
\* face of the group exactly once, and two faces are in one cluster exactly
\* when a chain of touching faces joins them, touching being asked of each
\* pair of faces with the lower index first.
C17_ClustersAreComponents ==
    \A c \in callers : \A k \in DOMAIN log[c] :
        log[c][k].stage = "clusters" =>
            \A g \in DOMAIN log[c][k].clusters :
                /\ Partitions([n \in DOMAIN log[c][k].clusters[g] |->
                                  KeysOf(log[c][k].clusters[g][n])],
                              KeysOf(GroupsOf(c)[g]))
                /\ ClosedUnderTouching(GroupsOf(c)[g], log[c][k].clusters[g],
                                       merger[self[c]].point_tol, merger[self[c]].norm_tol)

\* A group has been split into several clusters, and a cluster holds two
\* faces that do not touch each other but are joined through others.
C17_Witness ==
    \E c \in callers : \E k \in DOMAIN log[c] :
        /\ log[c][k].stage = "clusters"
        /\ \E g \in DOMAIN log[c][k].clusters : Len(log[c][k].clusters[g]) > 1
        /\ \E g \in DOMAIN log[c][k].clusters : \E n \in DOMAIN log[c][k].clusters[g] :
               \E i, j \in DOMAIN log[c][k].clusters[g][n] :
                   /\ i < j
                   /\ ~AreFacesTouching(log[c][k].clusters[g][n][i],
                                        log[c][k].clusters[g][n][j],
                                        merger[self[c]].point_tol, merger[self[c]].norm_tol)

-----------------------------------------------------------------------------
(* DataModifier.process as a state machine: the caller's frame starts in   *)
(* process, whose call of merge_planes runs as above.                      *)

\* Lines 22-45 and 47-51: up to the call of merge_planes, or to the return
\* when there is nothing to merge or merging is off.
Process(c) ==
    /\ call[c].pc = "process"
    /\ call' = [call EXCEPT ![c] =
                   IF TransformAndAggregate(call[c].arg) # <<>> /\ call[c].enable_merge
                       THEN [@ EXCEPT !.pc = "idle", !.arg = TransformAndAggregate(call[c].arg)]
                   ELSE [@ EXCEPT !.pc = "processed",
                                  !.valid_data =
                                      ProcessPlaneItems(TransformAndAggregate(call[c].arg), <<>>)]]
    /\ UNCHANGED <<scene, callers, self, merger, log, returned>>

\* Lines 45-51, after merge_planes has returned merged_planes.
ProcessUpdate(c) ==
    /\ call[c].pc = "done"
    /\ call' = [call EXCEPT ![c] =
                   [@ EXCEPT !.pc = "processed",
                             !.valid_data = DictUpdate(<<>>, returned[c][Len(returned[c])].value)]]
    /\ UNCHANGED <<scene, callers, self, merger, log, returned>>

NextProcess ==
    \E c \in callers :
        \/ Process(c)
        \/ Call(c)
        \/ BeginPass(c)
        \/ ExecPass(c)
        \/ EndPass(c)
        \/ ProcessUpdate(c)

\* Line 19: the DataModifier's merger has norm_tol = dist_tol =
\* merge_tolerance (0.01 by default) and the default point_tol.
InitProcess ==
    /\ scene \in ProcessScenes
    /\ callers = {"a"}
    /\ self = [c \in {"a"} |-> "m1"]
    /\ \E merge_tolerance \in {DefaultNormTol, RelaxedTol} :
           merger = [m \in Mergers |->
                        GeometryMerger(merge_tolerance, merge_tolerance, DefaultPointTol)]
    /\ \E enable_merge \in BOOLEAN :
           call = [c \in {"a"} |->
                      [IdleFrame(scene.items, 1, 0) EXCEPT !.pc = "process",
                                                           !.enable_merge = enable_merge]]
    /\ log = [c \in {"a"} |-> <<>>]
    /\ returned = [c \in {"a"} |-> <<>>]

SpecProcess == InitProcess /\ [][NextProcess]_vars

\* C14 as claimed: DataModifier.process never gives merge_planes a face of
\* fewer than 3 vertices, so that the filter of lines 130-131 skips no face
\* of the mapping merge_planes is called on.
C14_OnlyFacesOf3 ==
    \A c \in callers : \A l \in Range(log[c]) :
        l.pass_num = 1 =>
            \A i \in DOMAIN l.input : ~(Len(ExtractVertices(l.input[i].val)) < 3)

-----------------------------------------------------------------------------
(* merge_by_convex_hull                                                    *)

\* The lines where merge_by_convex_hull returns.
IsHullReturn(r) == r.line \in {34, 75, 90}

\* The points are all on one line of space (or fewer than 2 are distinct).
OnOneLine(points) ==
    \A i, j, k \in DOMAIN points :
        Cross(Sub(points[j], points[i]), Sub(points[k], points[i])) = <<0, 0, 0>>

\* C11: merge_by_convex_hull returns either a mapping of exactly one face,
\* named Merged_BackSide, or the mapping it was given; it returns the mapping
\* it was given whenever that holds fewer than 3 vertices or all its
\* vertices are on one line, so that the 2D hull cannot be computed.
C11_OneFaceOrInput ==
    \A c \in callers : \A k \in DOMAIN returned[c] :
        IsHullReturn(returned[c][k]) =>
            /\ \/ returned[c][k].value = ArgOf(c, k)
               \/ /\ Len(returned[c][k].value) = 1
                  /\ returned[c][k].value[1].key = MergedBackSide
            /\ (Len(AllVerts(ArgOf(c, k))) < 3 \/ OnOneLine(AllVerts(ArgOf(c, k))))
                   => returned[c][k].value = ArgOf(c, k)

\* merge_by_convex_hull has returned one face for a mapping of several
\* faces whose vertices span a plane.
C11_Witness ==
    \E c \in callers : \E k \in DOMAIN returned[c] :
        /\ returned[c][k].line = 90
        /\ Len(ArgOf(c, k)) > 1
        /\ ~OnOneLine(AllVerts(ArgOf(c, k)))
        /\ Len(returned[c][k].value) = 1

\* A vector across the plane of points that are not all on one line: the
\* reduced cross product of three of them.
AcrossOf(cr) == NormalOfSums(cr[1], cr[2], cr[3]).v

Across(ps) ==
    AcrossOf(CHOOSE cr \in {Cross(Sub(b, a), Sub(c, a)) : a, b, c \in ps} : cr # <<0, 0, 0>>)

\* The corners of the convex hull of ps, seen against n: the points from
\* which a line to another point has all points on its left or ahead on it.
CornersSeen(ps, n) ==
    {p \in ps :
        \E q \in ps \ {p} :
            \A r \in ps : \/ Side(p, q, r, n) > 0
                          \/ Side(p, q, r, n) = 0 /\ ~(Dot(Sub(r, p), Sub(q, p)) < 0)}

Corners(ps) == CornersSeen(ps, Across(ps))

\* p is inside or on the convex polygon loop, seen against n: on the same
\* side of all its edges, or on them.
InsideSeen(p, loop, n) ==
    \/ \A i \in DOMAIN loop : ~(Side(loop[i], loop[Next1(i, Len(loop))], p, n) < 0)
    \/ \A i \in DOMAIN loop : ~(Side(loop[i], loop[Next1(i, Len(loop))], p, n) > 0)

Inside(p, loop) == InsideSeen(p, loop, Across(Range(loop)))

\* C12: the face merge_by_convex_hull makes has as many vertices as the
\* convex hull of the input vertices has corners, and every input vertex (in
\* the fitted plane, where its projection is the vertex itself) is inside or
\* on the face's polygon, exactly and so within point_tol.
C12_HullOfInput ==
    \A c \in callers : \A k \in DOMAIN returned[c] :
        returned[c][k].line = 90 =>
            /\ Len(LoopsOf(returned[c][k].value)[1])
                   = Cardinality(Corners(Range(AllVerts(ArgOf(c, k)))))
            /\ \A p \in Range(AllVerts(ArgOf(c, k))) :
                   Inside(p, LoopsOf(returned[c][k].value)[1])

\* merge_by_convex_hull has made a face from vertices of which some are
\* not corners of the hull.
C12_Witness ==
    \E c \in callers : \E k \in DOMAIN returned[c] :
        /\ returned[c][k].line = 90
        /\ Len(LoopsOf(returned[c][k].value)[1]) >= 3
        /\ Cardinality(Range(AllVerts(ArgOf(c, k))))
               > Len(LoopsOf(returned[c][k].value)[1])

\* The except branch of lines 45-47 was taken in the call caller c is in.
SvdFailed(c) == call[c].normal = NpArray("int", <<0, 0, 1>>)

\* C13 as claimed: when the SVD fails the normal falls back to (0,0,1) and
\* the call still completes with a result: no exception leaves the call on
\* that path, the in-plane basis built from the fallback normal included.
C13_FallbackCompletes ==
    \A c \in callers : SvdFailed(c) => call[c].pc # "raised"

\* Caller c is inside merge_by_convex_hull, or at its call.
InHull(c) == call[c].pc \in {"fit", "wrap"} \/ (call[c].pc = "idle" /\ call'[c].pc \in {"fit", "done"})

\* One step of a call of caller c: the mapping the caller gave is as it was,
\* vertex records included, until the caller makes its next call; no
\* merger's norm_tol or dist_tol is written; a step of merge_by_convex_hull
\* writes no field of any merger; and when merge_planes returns, point_tol
\* is what it was at the call.
LeavesInput(c) ==
    /\ call[c].pc # "done" => call'[c].arg = call[c].arg
    /\ \A m \in Mergers : /\ merger'[m].norm_tol = merger[m].norm_tol
                          /\ merger'[m].dist_tol = merger[m].dist_tol
    /\ InHull(c) => merger' = merger
    /\ (call[c].pc = "tail" /\ call'[c].pc = "done")
           => merger'[self[c]].point_tol = call[c].original_point_tol

\* C19: neither merge_planes nor merge_by_convex_hull changes the mapping
\* the caller gave or its vertex records; both leave norm_tol and dist_tol
\* as they are and merge_by_convex_hull leaves point_tol too; the only
\* field merge_planes writes, point_tol, is back at its value when the call
\* returns, so that nothing is carried over to the next call.
C19_CallsLeaveInput == [][\A c \in callers : LeavesInput(c)]_vars

\* A caller has called both methods, and the merge_planes call has run its
\* second pass at the relaxed point_tol and returned.
C19_Witness ==
    \E c \in callers :
        /\ Len(returned[c]) = 2
        /\ \E k \in DOMAIN returned[c] : returned[c][k].line = 90
        /\ \E k \in DOMAIN returned[c] : returned[c][k].line \in {116, 120}
        /\ \E l \in Range(log[c]) : l.point_tol = RelaxedTol
        /\ scene.items # <<>>

\* C20 as claimed: when a walk over the boundary edges of a cluster reaches
\* a point with no successor and so does not close, the merge of the whole
\* cluster is abandoned and its faces are handed on as they are: no
\* cluster emits merged polygons while one of its chains did not close.
C20_AbandonOnOpenChain ==
    \A c \in callers : \A k \in DOMAIN log[c] :
        log[c][k].stage = "merged" =>
            \A n \in DOMAIN log[c][k].outs :
                (\E w \in DOMAIN log[c][k].outs[n].walks : ~log[c][k].outs[n].walks[w].closed)
                    => ~log[c][k].outs[n].merged

-----------------------------------------------------------------------------
(* The plane groups of a pass.                                             *)

\* The comparison of line 438 read off the faces f and seed: the dot product
\* of the unit normals against 1 - norm_tol, strictly or not, and the
\* offsets closer than dist_tol.
AgreeWith(f, seed, nt, dt, strictly) ==
    /\ \/ Dot(f.normal.v, seed.normal.v) * Milli > (Milli - nt) * f.normal.len * seed.normal.len
       \/ /\ ~strictly
          /\ Dot(f.normal.v, seed.normal.v) * Milli
                 = (Milli - nt) * f.normal.len * seed.normal.len
    /\ Abs(f.d.num * seed.d.den - seed.d.num * f.d.den) * Milli
           < dt * Grid * f.d.den * seed.d.den

\* The faces of face_list that none of the groups before the g-th holds.
UnvisitedAt(face_list, plane_groups, g) ==
    {i \in DOMAIN face_list :
        \A h \in 1..(g - 1) : face_list[i].original_key \notin Range(KeysOf(plane_groups[h]))}

\* The first of a set of indices.
FirstOf(idx) == CHOOSE i \in idx : \A j \in idx : ~(j < i)

\* Every group is its seed, the first face no earlier group holds, and
\* exactly the later faces no earlier group holds that agree with the seed,
\* in the order of the list.
SeedGroups(face_list, plane_groups, nt, dt, strictly) ==
    \A g \in DOMAIN plane_groups :
        /\ UnvisitedAt(face_list, plane_groups, g) # {}
        /\ plane_groups[g] =
               Pick(face_list,
                    {j \in UnvisitedAt(face_list, plane_groups, g) :
                        \/ j = FirstOf(UnvisitedAt(face_list, plane_groups, g))
                        \/ AgreeWith(face_list[j],
                                     face_list[FirstOf(UnvisitedAt(face_list, plane_groups, g))],
                                     nt, dt, strictly)})

-----------------------------------------------------------------------------
(* The loops of a cluster.                                                 *)

\* The stages of caller c's pass, once it has merged its clusters.
Merged(c) == Len(log[c]) = 3

\* The loops _chain_edges_all returned for a cluster: its closed walks.
ClosedLoops(out) ==
    LET closed == SelectSeq(out.walks, LAMBDA w : w.closed)
    IN  [k \in DOMAIN closed |-> closed[k].loop]

\* The number of vertices cleanup leaves of a loop of rounded points.
CleanedLen(loop_tuples, pt) ==
    Len(CleanPolygonArtifacts([i \in DOMAIN loop_tuples |-> TupleToPt(loop_tuples[i])], pt))

\* The vertex loops of the member faces of the n-th cluster of caller c.
MemberLoops(c, n) == [f \in DOMAIN ClustersMade(c)[n] |-> ClustersMade(c)[n][f].verts]

\* C22: if cleanup reduces any one loop of a cluster below 3 vertices, no
\* merged polygon of that cluster is emitted, those of loops cleaned
\* successfully before it included, and every member face of the cluster
\* passes through with its own vertex loop.
C22_ShortLoopAbandonsCluster ==
    \A c \in callers :
        Merged(c) =>
            \A n \in DOMAIN log[c][3].outs :
                (\E k \in DOMAIN ClosedLoops(log[c][3].outs[n]) :
                     CleanedLen(ClosedLoops(log[c][3].outs[n])[k], merger[self[c]].point_tol) < 3)
                    => /\ ~log[c][3].outs[n].merged
                       /\ log[c][3].outs[n].loops = MemberLoops(c, n)

\* A cluster of several faces whose first loop cleanup left with at least 3
\* vertices and a later loop with fewer.
C22_Witness ==
    \E c \in callers :
        /\ Merged(c)
        /\ \E n \in DOMAIN log[c][3].outs :
               /\ Len(log[c][3].outs[n].keys) > 1
               /\ Len(ClosedLoops(log[c][3].outs[n])) > 1
               /\ CleanedLen(ClosedLoops(log[c][3].outs[n])[1], merger[self[c]].point_tol) >= 3
               /\ \E k \in DOMAIN ClosedLoops(log[c][3].outs[n]) :
                      CleanedLen(ClosedLoops(log[c][3].outs[n])[k], merger[self[c]].point_tol) < 3

\* The faces of the n-th cluster of caller c after T-junction resolution.
RefinedOf(c, n) == ResolveTJunctions(ClustersMade(c)[n], merger[self[c]].point_tol)

\* The places <<face, vertex>> where an edge of the refined faces starts.
EdgePlaces(refined) == {<<f, i>> : f \in DOMAIN refined, i \in 1..10} \cap
                           UNION {{<<f, i>> : i \in DOMAIN refined[f]} : f \in DOMAIN refined}

\* The edge that starts at a place, its endpoints rounded.
EdgeAt(refined, pl) ==
    <<PtToTuple(refined[pl[1]][pl[2]]),
      PtToTuple(refined[pl[1]][Next1(pl[2], Len(refined[pl[1]]))])>>

\* The places whose edge has the endpoints of e, in either direction.
PlacesOfEdge(refined, e) ==
    {pl \in EdgePlaces(refined) : {EdgeAt(refined, pl)[1], EdgeAt(refined, pl)[2]} = {e[1], e[2]}}

\* boundary_edges holds the edge of every place whose endpoints occur at no
\* other place, once for each such place, and no other edge.
OnceOnly(refined, boundary_edges) ==
    /\ \A k \in DOMAIN boundary_edges :
           /\ Cardinality(PlacesOfEdge(refined, boundary_edges[k])) = 1
           /\ \A pl \in PlacesOfEdge(refined, boundary_edges[k]) :
                  EdgeAt(refined, pl) = boundary_edges[k]
    /\ \A pl \in EdgePlaces(refined) :
           Cardinality(PlacesOfEdge(refined, EdgeAt(refined, pl))) = 1
               => \E k \in DOMAIN boundary_edges : boundary_edges[k] = EdgeAt(refined, pl)
    /\ \A j, k \in DOMAIN boundary_edges : boundary_edges[j] = boundary_edges[k] => j = k

\* C23: the boundary edges of a cluster are exactly the edges of its
\* T-junction-refined faces whose undirected key (rounded endpoints, in
\* either order) occurs exactly once across the cluster; an edge whose key
\* occurs two or more times, in either direction, is no boundary edge.
C23_BoundaryIsOnceOnly ==
    \A c \in callers :
        Merged(c) =>
            \A n \in DOMAIN log[c][3].outs :
                OnceOnly(RefinedOf(c, n), log[c][3].outs[n].boundary_edges)

\* T-junction resolution has added a vertex to a face of the cluster, an
\* edge of the refined faces occurs twice in the same direction and
\* another twice in opposite directions.
SharedBothWays(cluster, refined) ==
    /\ \E f \in DOMAIN refined : Len(refined[f]) > Len(cluster[f].verts)
    /\ \E p, q \in EdgePlaces(refined) : p # q /\ EdgeAt(refined, p) = EdgeAt(refined, q)
    /\ \E p, q \in EdgePlaces(refined) :
           /\ EdgeAt(refined, p) = <<EdgeAt(refined, q)[2], EdgeAt(refined, q)[1]>>
           /\ EdgeAt(refined, p)[1] # EdgeAt(refined, p)[2]

\* Such a cluster, with boundary edges left.
C23_Witness ==
    \E c \in callers :
        /\ Merged(c)
        /\ \E n \in DOMAIN log[c][3].outs :
               /\ log[c][3].outs[n].boundary_edges # <<>>
               /\ SharedBothWays(ClustersMade(c)[n], RefinedOf(c, n))

-----------------------------------------------------------------------------
(* T-junction resolution.                                                  *)

\* The rounded vertices of all faces of a cluster.
ClusterPoints(cluster) ==
    UNION {{PtToTuple(cluster[f].verts[i]) : i \in DOMAIN cluster[f].verts} : f \in DOMAIN cluster}

\* The cluster vertices other than p1 and p2 that are within point_tol of
\* the line through p1 and p2 and whose projection on it lies strictly
\* between p1 and p2.
StrictlyBetween(points, p1, p2, pt) ==
    {cp \in points :
        /\ cp # PtToTuple(p1)
        /\ cp # PtToTuple(p2)
        /\ Dot(Sub(TupleToPt(cp), p1), Sub(p2, p1)) > 0
        /\ Dot(Sub(TupleToPt(cp), p1), Sub(p2, p1)) < Len2(Sub(p2, p1))
        /\ ~FracLess(TolSqNum(pt), TolSqDen,
                     Len2(Cross(Sub(TupleToPt(cp), p1), Sub(p2, p1))), Len2(Sub(p2, p1)))}

\* The loop verts with the points strictly between the ends of each of its
\* edges put in after the edge's first vertex, nearest first.
SplicedAll(verts, points, pt) ==
    Flatten([i \in DOMAIN verts |->
                <<verts[i]>> \o
                [k \in DOMAIN SortByDistance(
                                  StrictlyBetween(points, verts[i],
                                                  verts[Next1(i, Len(verts))], pt), verts[i]) |->
                    TupleToPt(SortByDistance(
                                  StrictlyBetween(points, verts[i],
                                                  verts[Next1(i, Len(verts))], pt), verts[i])[k])]])

\* C24 as claimed: T-junction resolution splices into each directed edge
\* p1 -> p2 of each face every other cluster vertex that is collinear with
\* the edge within point_tol and whose projection lies strictly between p1
\* and p2, whatever the length of the edge, in increasing distance from p1,
\* the face's own vertices keeping their order.
C24_SplicesAllOnEdge ==
    \A c \in callers :
        Merged(c) =>
            \A n \in DOMAIN ClustersMade(c) : \A f \in DOMAIN ClustersMade(c)[n] :
                RefinedOf(c, n)[f] =
                    SplicedAll(ClustersMade(c)[n][f].verts, ClusterPoints(ClustersMade(c)[n]),
                               merger[self[c]].point_tol)

-----------------------------------------------------------------------------
(* The orientation of merged polygons.                                     *)

\* The loop's recomputed normal does not oppose the reference normal.
WithReference(loop, reference) == ~(Dot(CalculateNormal(loop).v, reference.v) < 0)

\* C25: every merged polygon emitted for a cluster is oriented with the
\* cluster's reference: the dot product of its recomputed Newell normal
\* with the normal of the cluster's first member is >= 0.
C25_OrientedWithReference ==
    \A c \in callers :
        Merged(c) =>
            \A n \in DOMAIN log[c][3].outs :
                log[c][3].outs[n].merged =>
                    \A k \in DOMAIN log[c][3].outs[n].loops :
                        WithReference(log[c][3].outs[n].loops[k], ClustersMade(c)[n][1].normal)

-----------------------------------------------------------------------------
(* The number of faces a call returns.                                     *)

\* The number of faces of a mapping that have at least 3 vertices.
FacesOf3(mapping) ==
    Cardinality({i \in DOMAIN mapping : ~(Len(ExtractVertices(mapping[i].val)) < 3)})

\* C26: merge_planes never returns more faces than the number of faces of
\* its argument that have at least 3 vertices: merging keeps or reduces
\* the face count.
C26_NeverMoreFaces ==
    \A c \in callers : \A k \in DOMAIN returned[c] :
        ~(FacesOf3(ArgOf(c, k)) < Len(returned[c][k].value))

-----------------------------------------------------------------------------
(* Boundary edges and the loops chained from them.                         *)

\* The directed edge e goes from a vertex of loop to the next one round it.
EdgeOfLoop(e, loop) ==
    \E i \in DOMAIN loop : loop[i] = e[1] /\ loop[Next1(i, Len(loop))] = e[2]

\* Every boundary edge of out is an edge of exactly one of its loops.
EveryEdgeChained(out, loops) ==
    \A i \in DOMAIN out.boundary_edges :
        Cardinality({k \in DOMAIN loops : EdgeOfLoop(out.boundary_edges[i], loops[k])}) = 1

\* C27: when a cluster's merge is accepted, every boundary edge of the
\* cluster is an edge of exactly one loop returned by _chain_edges_all:
\* the successor map discards no boundary edge, also when two boundary
\* edges leave the same vertex.
C27_EveryBoundaryEdgeChained ==
    \A c \in callers :
        Merged(c) =>
            \A n \in DOMAIN log[c][3].outs :
                log[c][3].outs[n].merged =>
                    EveryEdgeChained(log[c][3].outs[n], ClosedLoops(log[c][3].outs[n]))

-----------------------------------------------------------------------------
(* _chain_edges_all as a state machine over a list of directed edges: the   *)
(* dict is built, then each step is one iteration of the outer while loop.  *)

\* The longest edge list given.
MaxEdges == 3

\* The rounded points the edges run between.
ChainPoints == {PtToTuple(<<0, 0, 0>>), PtToTuple(<<U, 0, 0>>), PtToTuple(<<U, U, 0>>)}

\* Every list of at most MaxEdges directed edges between those points, an
\* edge from a point to itself and a repeated edge included.
EdgeLists == UNION {[1..n -> ChainPoints \X ChainPoints] : n \in 0..MaxEdges}

ChainScenes == {[kind |-> "edges", items |-> edges] : edges \in EdgeLists}

\* Every walk is appended to loops.
LoopsAppendAny(loops, w) == Append(loops, w.loop)

\* Lines 347-349: a walk back at start_pt is appended to loops.
LoopsAppend(loops, w) == IF w.closed THEN Append(loops, w.loop) ELSE loops

\* Lines 330-332: adj = {}; adj[start] = end for every edge; loops = [].
ChainBegin(c) ==
    /\ call[c].pc = "idle"
    /\ call' = [call EXCEPT ![c] = [pc |-> "while", adj |-> BuildAdj(<<>>, scene.items),
                                     loops |-> <<>>]]
    /\ UNCHANGED <<scene, callers, self, merger, log, returned>>

\* The iteration of caller c whose walk was w.
Walked(c, w) ==
    /\ call' = [call EXCEPT ![c] = [@ EXCEPT !.adj = w.adj,
                                              !.loops = LoopsAppend(call[c].loops, w)]]
    /\ log' = [log EXCEPT ![c] = Append(@, [adj |-> call[c].adj, closed |-> w.closed,
                                             loop |-> w.loop, left |-> w.adj])]

\* Lines 333-351: one iteration of while adj, from the first key left.
ChainIterate(c) ==
    /\ call[c].pc = "while"
    /\ call[c].adj # <<>>
    /\ Walked(c, Walk(call[c].adj, call[c].adj[1][1], call[c].adj[1][1], <<>>, 0,
                       Len(call[c].adj) * 2))
    /\ UNCHANGED <<scene, callers, self, merger, returned>>

\* Line 352: return loops, once adj is empty.
ChainReturn(c) ==
    /\ call[c].pc = "while"
    /\ call[c].adj = <<>>
    /\ call' = [call EXCEPT ![c] = [@ EXCEPT !.pc = "done"]]
    /\ returned' = [returned EXCEPT ![c] = Append(@, [value |-> call[c].loops])]
    /\ UNCHANGED <<scene, callers, self, merger, log>>

NextChain ==
    \E c \in callers :
        \/ ChainBegin(c)
        \/ ChainIterate(c)
        \/ ChainReturn(c)

InitChain ==
    /\ scene \in ChainScenes
    /\ callers = {"a"}
    /\ self = [c \in {"a"} |-> "m1"]
    /\ merger = [m \in Mergers |->
                    GeometryMerger(DefaultNormTol, DefaultDistTol, DefaultPointTol)]
    /\ call = [c \in {"a"} |-> [pc |-> "idle", adj |-> <<>>, loops |-> <<>>]]
    /\ log = [c \in {"a"} |-> <<>>]
    /\ returned = [c \in {"a"} |-> <<>>]

SpecChain == InitChain /\ [][NextChain]_vars

\* The call is one thread of control: a step that can be taken is taken.
SpecChainLive == SpecChain /\ WF_vars(NextChain)

\* Every call has returned.
ChainDone == \A c \in callers : call[c].pc = "done"

\* An iteration of the outer loop leaves adj with fewer entries.
IterationRemoves ==
    \A c \in callers :
        (call[c].pc = "while" /\ call'[c].pc = "while") =>
            Len(call'[c].adj) < Len(call[c].adj)

\* loop is a closed cycle of the successor map made of edges: each of its
\* points leads to the next, the last one to the first.
CycleOf(loop, edges) ==
    /\ loop # <<>>
    /\ \A i \in DOMAIN loop :
           /\ AdjHas(BuildAdj(<<>>, edges), loop[i])
           /\ AdjGet(BuildAdj(<<>>, edges), loop[i]) = loop[Next1(i, Len(loop))]

\* No point is twice in loops, within one loop or in two.
NoPointTwice(loops) ==
    \A k, m \in DOMAIN loops : \A i \in DOMAIN loops[k], j \in DOMAIN loops[m] :
        loops[k][i] = loops[m][j] => (k = m /\ i = j)

\* The loops gathered so far are cycles without a repeated point.
LoopsAreCycles ==
    \A c \in callers :
        call[c].pc # "idle" =>
            /\ \A k \in DOMAIN call[c].loops : CycleOf(call[c].loops[k], scene.items)
            /\ NoPointTwice(call[c].loops)

\* C28: _chain_edges_all terminates for every finite list of directed
\* edges, each iteration of the outer loop removing at least one entry of
\* the successor map, and the loops it returns are closed cycles of the
\* successor map in which no vertex is twice, within a loop or across
\* loops.
C28_ChainTerminatesWithCycles ==
    /\ <>ChainDone
    /\ [][IterationRemoves]_vars
    /\ []LoopsAreCycles

\* The call has returned a loop and has dropped a walk that ran into a
\* point no longer in the map.
C28_Witness ==
    \E c \in callers :
        /\ call[c].pc = "done"
        /\ returned[c][1].value # <<>>
        /\ \E k \in DOMAIN log[c] :
               /\ ~log[c][k].closed
               /\ Len(log[c][k].loop) > 1
               /\ \E m \in DOMAIN returned[c][1].value :
                      log[c][k].loop[Len(log[c][k].loop)] \in Range(returned[c][1].value[m])

-----------------------------------------------------------------------------
(* _clean_polygon_artifacts as a state machine over one vertex loop: each   *)
(* step is one iteration of its for loop.                                   *)

\* The longest loop given.
MaxLoop == 5

\* The corners of the unit square and a point 0.02 off its first corner in
\* x and in y, nearer to it than 0.05 and farther than 0.001.
CleanPoints == {<<0, 0, 0>>, <<U, 0, 0>>, <<U, U, 0>>, <<0, U, 0>>, <<1, 1, 0>>}

\* Every loop of 3 to MaxLoop of those points, repeated points included.
CleanLoops == UNION {[1..n -> CleanPoints] : n \in 3..MaxLoop}

CleanScenes == {[kind |-> "loop", items |-> verts] : verts \in CleanLoops}

\* Line 222: current_verts = verts[:].
CleanBegin(c) ==
    /\ call[c].pc = "idle"
    /\ call' = [call EXCEPT ![c] = [pc |-> "for", i |-> 0, current_verts |-> scene.items]]
    /\ UNCHANGED <<scene, callers, self, merger, log, returned>>

\* The iteration of caller c that turned current_verts into verts.
Cleaned(c, verts) ==
    /\ call' = [call EXCEPT ![c] =
                   [pc |-> IF Len(verts) = Len(call[c].current_verts) THEN "break" ELSE "for",
                    i |-> call[c].i + 1, current_verts |-> verts]]
    /\ log' = [log EXCEPT ![c] = Append(@, [start_len |-> Len(call[c].current_verts),
                                             verts |-> verts])]

\* Lines 223-229: one iteration that is not left at line 225.
CleanIterate(c) ==
    /\ call[c].pc = "for"
    /\ call[c].i < MaxIterations
    /\ ~(Len(call[c].current_verts) < 3)
    /\ Cleaned(c, CleanOnce(call[c].current_verts, merger[SelfOf(c)].point_tol))
    /\ UNCHANGED <<scene, callers, self, merger, returned>>

\* Line 230, reached from the break of line 229 or of line 225, or after
\* max_iterations iterations (capped).
CleanReturn(c) ==
    /\ \/ call[c].pc = "break"
       \/ call[c].pc = "for" /\ (Len(call[c].current_verts) < 3 \/ call[c].i = MaxIterations)
    /\ call' = [call EXCEPT ![c] = [@ EXCEPT !.pc = "done"]]
    /\ returned' = [returned EXCEPT ![c] =
                       Append(@, [value |-> call[c].current_verts,
                                  capped |-> call[c].pc = "for" /\ call[c].i = MaxIterations
                                                 /\ ~(Len(call[c].current_verts) < 3)])]
    /\ UNCHANGED <<scene, callers, self, merger, log>>

NextClean ==
    \E c \in callers :
        \/ CleanBegin(c)
        \/ CleanIterate(c)
        \/ CleanReturn(c)

InitClean ==
    /\ scene \in CleanScenes
    /\ callers = {"a"}
    /\ self = [c \in {"a"} |-> "m1"]
    /\ \E t \in {DefaultPointTol, RelaxedTol} :
           merger = [m \in Mergers |-> GeometryMerger(DefaultNormTol, DefaultDistTol, t)]
    /\ call = [c \in {"a"} |-> [pc |-> "idle", i |-> 0, current_verts |-> <<>>]]
    /\ log = [c \in {"a"} |-> <<>>]
    /\ returned = [c \in {"a"} |-> <<>>]

SpecClean == InitClean /\ [][NextClean]_vars

\* Two vertices that follow each other round verts, the last and the first
\* included, are closer than tol.
HasShortEdge(verts, tol) ==
    \E i \in DOMAIN verts : WithinTolSq(Dist2(verts[i], verts[Next1(i, Len(verts))]), tol)

\* C29: when _clean_polygon_artifacts stops before its 10-iteration cap on
\* a loop that still has at least 3 vertices, no two cyclically
\* consecutive vertices of the result, the pair (last vertex, first
\* vertex) included, are closer than point_tol.
C29_NoShortEdgeLeft ==
    \A c \in callers : \A k \in DOMAIN returned[c] :
        (~returned[c][k].capped /\ ~(Len(returned[c][k].value) < 3)) =>
            ~HasShortEdge(returned[c][k].value, merger[SelfOf(c)].point_tol)

-----------------------------------------------------------------------------
(* DataModifier.process with merging disabled.                             *)

\* C30: with merging disabled, DataModifier.process keeps every plane
\* candidate: valid_data has as many plane entries as the input has
\* non-empty entries routed to the plane branch, the renaming of
\* _process_plane_item giving no two input keys the same output key.
C30_KeepsEveryCandidate ==
    \A c \in callers :
        (call[c].pc = "processed" /\ ~call[c].enable_merge) =>
            Len(call[c].valid_data) = Len(TransformAndAggregate(scene.items))

====
